---- MODULE Spec2Model ----
(***************************************************************************)
(* Model of the OCTMM module runtime.                                      *)
(*                                                                         *)
(* Graph engine (runner/audio/dsp/mod.rs, DspModule): an index-addressed   *)
(* arena of fundsp networks (nets), the live-parameter store (shared) and  *)
(* the name -> handle map (shared_to_net).  Every public method of         *)
(* DspModule is one action; its result is recorded in `last`.              *)
(*                                                                         *)
(* A fundsp Net is abstracted to the record                                *)
(*   [kind, ins, outs, val, refs, size]                                    *)
(* kind : the unit or combinator the network was built with                *)
(* ins/outs : Net::inputs() / Net::outputs()                               *)
(* val  : the value of a constant() unit (0 otherwise)                     *)
(* refs : the names of the Shared cells the network's var() units read     *)
(* size : the number of units wrapped or chained into the network          *)
(* A Shared cell is held by reference: a network names the cell (refs) and *)
(* the cell's value lives only in `shared`.                                *)
(* The arities are fundsp's: an oscillator has 1 input and 1 output, a     *)
(* constant or var unit 0 inputs and 1 output; sum and product add the     *)
(* operands' inputs, bus keeps them, pipe takes a's inputs and b's         *)
(* outputs; chain adds a unit inside the network and keeps its arity.      *)
(*                                                                         *)
(* issued, allocs, trail and before are history variables: they record     *)
(* what the calls returned and the fields before the last call, and no     *)
(* action reads them.                                                      *)
(***************************************************************************)
EXTENDS Integers, Sequences, FiniteSets, TLC

VARIABLES
    nets,           \* DspModule.nets : Vec<Net>, 0-indexed (slot h is nets[h+1])
    shared,         \* DspModule.shared : HashMap<String, Shared>
    shared_to_net,  \* DspModule.shared_to_net : HashMap<String, usize>
    last,           \* the last call made and what it returned
    steps,          \* number of calls made in the session
    issued,         \* history: the handles handed to the caller so far
    allocs,         \* history: number of calls that allocated a slot
    trail,          \* history: the run of parameter-store calls ending now
    before,         \* history: the DspModule fields when the last call was made
    sequencer,      \* AudioModule.sequencer : the events pushed to the Sequencer
    event_map,      \* AudioModule.event_map : HashMap<String, EventId>
    next_event,     \* fundsp's EventId counter
    aborted,        \* a command has panicked: the session is over
    cmd,            \* the last command string sent and the string returned
    cmds,           \* number of commands sent in the session
    played,         \* history: the event ids play has returned
    abefore,        \* history: the AudioModule when the last command was sent
    callbacks,      \* Timer._Callbacks : name -> the entry of an enabled timer
    bpm,            \* Timer._BPM
    published,      \* Timer._Time, in tenths of a second
    count,          \* name -> the times the script's callback was invoked
    upd,            \* history: the last update pass
    log,            \* history: the update passes since the script's setup
    steady,         \* history: the script has not stepped in since its setup
    off,            \* history: timers that disabled themselves, not enabled since
    updates,        \* number of update calls
    calls,          \* number of timer calls the script made
    tempo,          \* history: the last SetBPM or GetBPM call of the script
    tried,          \* history: the last Enable call of the script, its result
    pc,             \* Runner::run: the statement the control thread is at
    flag,           \* the Lua global EndSong
    iter,           \* number of loop iterations begun
    binding,        \* the scope the function at the command global was made in
    live,           \* the Lua scope that is open (0: none)
    nreg,           \* number of scopes opened so far
    rt,             \* the thread AudioModule::run_fundsp spawns
    rtrace,         \* history: the module calls Runner::run has made
    invoked,        \* history: the entry point calls of the script
    heard,          \* event -> the parameter values its last render read
    written,        \* history: name -> the values written to the cell
    disk,           \* the paths that exist in the file system
    outcome,        \* history: the last Project::create, its result
    creates         \* history: number of Project::create calls

dsp == <<nets, shared, shared_to_net>>
session == <<last, steps, issued, allocs, trail, before>>
audio == <<sequencer, event_map, next_event>>
commands == <<aborted, cmd, cmds, played, abefore>>
timer == <<callbacks, bpm, published, count>>
passes == <<upd, log, steady, off, updates, calls, tempo, tried>>
runner == <<pc, flag, iter, binding, live, nreg, rt, rtrace, invoked>>
render == <<heard, written>>
project == <<disk, outcome, creates>>
vars == <<nets, shared, shared_to_net, last, steps, issued, allocs, trail,
         before, sequencer, event_map, next_event, aborted, cmd, cmds,
         played, abefore, callbacks, bpm, published, count, upd, log,
         steady, off, updates, calls, tempo, tried, pc, flag, iter, binding, live, nreg,
         rt, rtrace, invoked, heard, written, disk, outcome,
         creates>>

----------------------------------------------------------------------------
(* Bounds and input domains *)

MaxSteps == 3

\* Option::None, and the result of a call that returns nothing
Nil == -1

Values == {1, 2}
Names == {"f", "g"}
OscNames == {"hammond", "organ", "saw", "sine", "softsaw", "square", "triangle"}
BadOscNames == {"badinput"}
\* The oscillator a caller chains into a network
ChainTypes == {"sine"}

\* Length of the recorded run of parameter-store calls
TrailLen == 3

----------------------------------------------------------------------------
(* fundsp networks *)

Unit(kind, ins, outs, val, refs) ==
    [kind |-> kind, ins |-> ins, outs |-> outs, val |-> val, refs |-> refs,
     size |-> 1]

\* NodeType::as_unit: the seven oscillators, one frequency input, one output
as_unit(node_type) == Unit(node_type, 1, 1, 0, {})

\* mutant: the indices are counted from 1
as_net_id_from_one(node_type) ==
    CASE node_type = "hammond"  -> 1
      [] node_type = "organ"    -> 2
      [] node_type = "saw"      -> 3
      [] node_type = "sine"     -> 4
      [] node_type = "softsaw"  -> 5
      [] node_type = "square"   -> 6
      [] node_type = "triangle" -> 7

\* NodeType::as_net_id
as_net_id(node_type) ==
    CASE node_type = "hammond"  -> 0
      [] node_type = "organ"    -> 1
      [] node_type = "saw"      -> 2
      [] node_type = "sine"     -> 3
      [] node_type = "softsaw"  -> 4
      [] node_type = "square"   -> 5
      [] node_type = "triangle" -> 6

\* NodeType::get_defaults
get_defaults ==
    << as_unit("hammond"), as_unit("organ"), as_unit("saw"), as_unit("sine"),
       as_unit("softsaw"), as_unit("square"), as_unit("triangle") >>

\* Net::new(inputs, outputs): an empty network of the given arity
NetNew(i, o) ==
    [kind |-> "new", ins |-> i, outs |-> o, val |-> 0, refs |-> {}, size |-> 0]

\* Net::wrap(Box::new(constant(value)))
ConstantNet(value) == Unit("constant", 0, 1, value, {})

\* Net::wrap(Box::new(var(&shared)))
VarNet(name) == Unit("var", 0, 1, 0, {name})

\* The networks callers hand to net_from / net_replace
NewNets == {NetNew(0, 2), NetNew(2, 1)}

can_product(a, b) == a.outs = b.outs
can_sum(a, b) == a.outs = b.outs
can_bus(a, b) == a.ins = b.ins /\ a.outs = b.outs
can_pipe(a, b) == a.outs = b.ins

Binop(kind, a, b) ==
    [kind |-> kind, ins |-> a.ins + b.ins, outs |-> a.outs, val |-> 0,
     refs |-> a.refs \cup b.refs, size |-> a.size + b.size]

NetProduct(a, b) == Binop("product", a, b)
NetSum(a, b) == Binop("sum", a, b)
NetBus(a, b) ==
    [kind |-> "bus", ins |-> a.ins, outs |-> a.outs, val |-> 0,
     refs |-> a.refs \cup b.refs, size |-> a.size + b.size]
NetPipe(a, b) ==
    [kind |-> "pipe", ins |-> a.ins, outs |-> b.outs, val |-> 0,
     refs |-> a.refs \cup b.refs, size |-> a.size + b.size]

\* Net::chain(unit): the unit is added inside the network, in place
NetChain(n, unit) == [n EXCEPT !.size = n.size + unit.size]

\* Net::has_backend: no code of the repository calls Net::backend on an
\* arena network, so no arena network has a backend
has_backend(n) == FALSE

----------------------------------------------------------------------------
(* DspModule.  Slot h of the Vec is nets[h + 1].  Each method is an operator *)
(* from the fields it reads to the fields it writes and its return value.    *)

Slot(ns, h) == ns[h + 1]

\* DspModule::net_exists
net_exists(ns, target) == target < Len(ns)

\* DspModule::net_vector_length
net_vector_length(ns) == Len(ns)

\* mutant: returns the length after the push, not the index of the pushed slot
net_from_len(ns, new_network) ==
    LET pushed == Append(ns, new_network)
    IN  [nets |-> pushed, ret |-> Len(pushed)]

\* mutant: the new network is written over the last slot, not appended
net_from_over(ns, new_network) ==
    [nets |-> [ns EXCEPT ![Len(ns)] = new_network], ret |-> Len(ns) - 1]

\* DspModule::net_from: push a copy, return len - 1
net_from(ns, new_network) ==
    LET pushed == Append(ns, new_network)
    IN  [nets |-> pushed, ret |-> Len(pushed) - 1]

\* mutant: the slot is removed and the new network pushed at the end
net_replace_push(ns, target, new_network) ==
    IF ~(target < Len(ns))
    THEN [nets |-> ns, ret |-> Nil]
    ELSE [nets |-> Append([i \in 1 .. Len(ns) - 1 |->
                              IF i < target + 1 THEN ns[i] ELSE ns[i + 1]],
                          new_network),
          ret |-> target]

\* mutant: the arena is cut at the slot before the new network is pushed
net_replace_truncate(ns, target, new_network) ==
    IF ~(target < Len(ns))
    THEN [nets |-> ns, ret |-> Nil]
    ELSE [nets |-> Append(SubSeq(ns, 1, target), new_network), ret |-> target]

\* DspModule::net_replace
net_replace(ns, target, new_network) ==
    IF ~net_exists(ns, target)
    THEN [nets |-> ns, ret |-> Nil]
    ELSE [nets |-> [ns EXCEPT ![target + 1] = new_network], ret |-> target]

\* DspModule::net_constant
net_constant(ns, value) == net_from(ns, ConstantNet(value))

\* mutant: the zero-input test on the right operand is missing
net_product_any(ns, target_a, target_b) ==
    IF ~(target_a < Len(ns)) \/ ~(target_b < Len(ns))
    THEN [nets |-> ns, ret |-> Nil]
    ELSE IF ~can_product(ns[target_a + 1], ns[target_b + 1])
         THEN [nets |-> ns, ret |-> Nil]
         ELSE [nets |-> Append(ns, NetProduct(ns[target_a + 1], ns[target_b + 1])),
               ret |-> Len(ns)]

\* DspModule::net_product ("Only works with constants / shared")
net_product(ns, target_a, target_b) ==
    IF ~net_exists(ns, target_a) \/ ~net_exists(ns, target_b)
    THEN [nets |-> ns, ret |-> Nil]
    ELSE LET net_a == Slot(ns, target_a)
             net_b == Slot(ns, target_b)
         IN  IF ~can_product(net_a, net_b) \/ net_b.ins # 0
             THEN [nets |-> ns, ret |-> Nil]
             ELSE net_from(ns, NetProduct(net_a, net_b))

\* mutant: sums only when both operands have 0 inputs
net_bus_both(ns, target_a, target_b) ==
    IF ~(target_a < Len(ns)) \/ ~(target_b < Len(ns))
    THEN [nets |-> ns, ret |-> Nil]
    ELSE LET net_a == ns[target_a + 1]
             net_b == ns[target_b + 1]
         IN  IF net_a.ins = 0 /\ net_b.ins = 0
             THEN IF ~can_sum(net_a, net_b)
                  THEN [nets |-> ns, ret |-> Nil]
                  ELSE [nets |-> Append(ns, NetSum(net_a, net_b)),
                        ret |-> Len(ns)]
             ELSE IF ~can_bus(net_a, net_b)
                  THEN [nets |-> ns, ret |-> Nil]
                  ELSE [nets |-> Append(ns, NetBus(net_a, net_b)),
                        ret |-> Len(ns)]

\* mutant: a zero-input operand is bused, giving the inputs of the left one
net_bus_structural(ns, target_a, target_b) ==
    IF ~net_exists(ns, target_a) \/ ~net_exists(ns, target_b)
    THEN [nets |-> ns, ret |-> Nil]
    ELSE LET net_a == Slot(ns, target_a)
             net_b == Slot(ns, target_b)
         IN  IF Slot(ns, target_a).ins = 0 \/ Slot(ns, target_b).ins = 0
             THEN IF ~can_sum(net_a, net_b)
                  THEN [nets |-> ns, ret |-> Nil]
                  ELSE net_from(ns, NetBus(net_a, net_b))
             ELSE IF ~can_bus(net_a, net_b)
                  THEN [nets |-> ns, ret |-> Nil]
                  ELSE net_from(ns, NetBus(net_a, net_b))

\* DspModule::net_bus: operands with 0 inputs are summed instead
net_bus(ns, target_a, target_b) ==
    IF ~net_exists(ns, target_a) \/ ~net_exists(ns, target_b)
    THEN [nets |-> ns, ret |-> Nil]
    ELSE LET net_a == Slot(ns, target_a)
             net_b == Slot(ns, target_b)
         IN  IF Slot(ns, target_a).ins = 0 \/ Slot(ns, target_b).ins = 0
             THEN IF ~can_sum(net_a, net_b)
                  THEN [nets |-> ns, ret |-> Nil]
                  ELSE net_from(ns, NetSum(net_a, net_b))
             ELSE IF ~can_bus(net_a, net_b)
                  THEN [nets |-> ns, ret |-> Nil]
                  ELSE net_from(ns, NetBus(net_a, net_b))

\* mutant: the compatibility test takes the operands in the other order
net_pipe_swapped(ns, target_a, target_b) ==
    IF ~(target_a < Len(ns)) \/ ~(target_b < Len(ns))
    THEN [nets |-> ns, ret |-> Nil]
    ELSE LET net_a == ns[target_a + 1]
             net_b == ns[target_b + 1]
         IN  IF ~can_pipe(net_b, net_a)
             THEN [nets |-> ns, ret |-> Nil]
             ELSE [nets |-> Append(ns, NetPipe(net_a, net_b)), ret |-> Len(ns)]

\* DspModule::net_pipe
net_pipe(ns, target_a, target_b) ==
    IF ~net_exists(ns, target_a) \/ ~net_exists(ns, target_b)
    THEN [nets |-> ns, ret |-> Nil]
    ELSE LET net_a == Slot(ns, target_a)
             net_b == Slot(ns, target_b)
         IN  IF ~can_pipe(net_a, net_b)
             THEN [nets |-> ns, ret |-> Nil]
             ELSE net_from(ns, NetPipe(net_a, net_b))

\* DspModule::net_chain: the slot is edited in place; the NodeId it returns
\* is fundsp's, not an arena handle, and is abstracted to Some (0) / None
net_chain(ns, target_net, node_type) ==
    IF ~net_exists(ns, target_net)
    THEN [nets |-> ns, ret |-> Nil]
    ELSE [nets |-> [ns EXCEPT ![target_net + 1] =
                        NetChain(Slot(ns, target_net), as_unit(node_type))],
          ret |-> 0]

\* net_commit read as keeping the committed network in a slot of its own
net_commit_snapshot(ns, target_net) ==
    IF net_exists(ns, target_net) THEN Append(ns, Slot(ns, target_net))
    ELSE ns

\* DspModule::net_commit
net_commit(ns, target_net) ==
    IF net_exists(ns, target_net) /\ has_backend(Slot(ns, target_net))
    THEN ns  \* Net::commit hands the pending edits to the backend
    ELSE ns

\* mutant: the handle is handed back without a copy being pushed
net_clone_same(ns, arg_id) ==
    IF ~(arg_id < Len(ns))
    THEN [nets |-> ns, ret |-> Nil]
    ELSE [nets |-> ns, ret |-> arg_id]

\* the net_clone arm of DspModule::command
net_clone(ns, arg_id) ==
    IF ~net_exists(ns, arg_id)
    THEN [nets |-> ns, ret |-> Nil]
    ELSE net_from(ns, Slot(ns, arg_id))

\* the net_default arm of DspModule::command
net_default(arg_type) ==
    IF arg_type \in OscNames THEN as_net_id(arg_type) ELSE Nil

(* Shared management *)

\* DspModule::shared_exists
shared_exists(sh, name) == name \in DOMAIN sh

\* DspModule::shared_get: the value of the cell, or None
shared_get(sh, name) == IF name \in DOMAIN sh THEN sh[name] ELSE Nil

\* DspModule::shared_get_net
shared_get_net(s2n, name) == IF name \in DOMAIN s2n THEN s2n[name] ELSE Nil

\* HashMap::insert
Insert(map, key, value) ==
    [k \in DOMAIN map \cup {key} |-> IF k = key THEN value ELSE map[k]]

\* mutant: an existing name keeps its old value
shared_set_keep(ns, sh, s2n, name, value) ==
    IF name \notin DOMAIN sh
    THEN [nets |-> Append(ns, VarNet(name)),
          shared |-> Insert(sh, name, value),
          shared_to_net |-> Insert(s2n, name, Len(ns)),
          ret |-> Len(ns)]
    ELSE [nets |-> ns, shared |-> sh, shared_to_net |-> s2n, ret |-> s2n[name]]

\* mutant: the test for an existing entry is missing
shared_set_create(ns, sh, s2n, name, value) ==
    [nets |-> Append(ns, VarNet(name)),
     shared |-> Insert(sh, name, value),
     shared_to_net |-> Insert(s2n, name, Len(ns)),
     ret |-> Len(ns)]

\* mutant: the handle of a new parameter is not recorded
shared_set_unmapped(ns, sh, s2n, name, value) ==
    IF shared_get(sh, name) = Nil
    THEN LET created == net_from(ns, VarNet(name))
         IN  [nets |-> created.nets,
              shared |-> Insert(sh, name, value),
              shared_to_net |-> s2n,
              ret |-> created.ret]
    ELSE [nets |-> ns,
          shared |-> [sh EXCEPT ![name] = value],
          shared_to_net |-> s2n,
          ret |-> shared_get_net(s2n, name)]

\* DspModule::shared_set
shared_set(ns, sh, s2n, name, value) ==
    IF shared_get(sh, name) = Nil
    THEN LET created == net_from(ns, VarNet(name))
         IN  [nets |-> created.nets,
              shared |-> Insert(sh, name, value),
              shared_to_net |-> Insert(s2n, name, created.ret),
              ret |-> created.ret]
    ELSE [nets |-> ns,
          shared |-> [sh EXCEPT ![name] = value],
          shared_to_net |-> s2n,
          ret |-> shared_get_net(s2n, name)]

----------------------------------------------------------------------------
(* The session: calls on one DspModule *)

NoNet == NetNew(0, 0)

Call(op, name, a, b, v, net, ret) ==
    [op |-> op, name |-> name, a |-> a, b |-> b, v |-> v, net |-> net,
     ret |-> ret]

\* Handles a caller passes: a built-in, every handle issued since, and the
\* first handle not yet issued
Handles == {3} \cup (7 .. Len(nets))

\* struct DspModule
Fields(ns, sh, s2n) == [nets |-> ns, shared |-> sh, shared_to_net |-> s2n]

\* struct AudioModule
Module(d, seq, emap, nxt) ==
    [dsp |-> d, sequencer |-> seq, event_map |-> emap, next_event |-> nxt]

\* the command string "" and no result yet
NoCmd == [arg |-> << >>, ret |-> << >>]

\* AudioModule::new
InitAudio ==
    /\ sequencer = << >>
    /\ event_map = << >>
    /\ next_event = 0
    /\ aborted = FALSE
    /\ cmd = NoCmd
    /\ cmds = 0
    /\ played = {}
    /\ abefore = Module(Fields(get_defaults, << >>, << >>), << >>, << >>, 0)

\* the timers the script creates with Timer.new: a tick timer whose callback
\* disables it on its second invocation, a beat timer of frequency 1.0 and
\* offset 0, and a beat timer of frequency 2.0 and offset 1.0 whose callback
\* disables it on its second invocation
TimerDefs ==
    [t1 |-> [type |-> "tick", function |-> TRUE, frequency |-> 0,
             offset |-> 0, limit |-> 2],
     b1 |-> [type |-> "beat", function |-> TRUE, frequency |-> 1,
             offset |-> 0, limit |-> 0],
     b2 |-> [type |-> "beat", function |-> TRUE, frequency |-> 2,
             offset |-> 10, limit |-> 2]]
TimerNames == DOMAIN TimerDefs

\* a Lua value handed to SetBPM
LuaNumber(v) == [type |-> "number", v |-> v]
LuaString(v) == [type |-> "string", v |-> v]

\* no tempo call yet: the tempo the module starts with is held
NoTempoCall ==
    [op |-> "none", arg |-> LuaNumber(60), err |-> FALSE, got |-> 60,
     held |-> 60, accepted |-> 60]

\* no update pass yet
NoPass ==
    [now |-> 0, bpm |-> 0, before |-> << >>,
     cbefore |-> [n \in TimerNames |-> 0],
     fired |-> [n \in TimerNames |-> 0], visited |-> {}, order |-> << >>,
     off |-> {}, after |-> << >>, seen |-> << >>, last |-> 0,
     panic |-> FALSE]

\* no Enable call yet
NoEnable == [op |-> "none", name |-> "", obj |-> << >>, delay |-> FALSE,
             err |-> FALSE, held |-> << >>]

\* TimerModule::init and the script's SetBPM(60)
InitTimer ==
    /\ callbacks = << >>
    /\ bpm = 60
    /\ published = 0
    /\ count = [n \in TimerNames |-> 0]
    /\ upd = NoPass
    /\ log = << >>
    /\ steady = TRUE
    /\ off = {}
    /\ updates = 0
    /\ calls = 0
    /\ tempo = NoTempoCall
    /\ tried = NoEnable

\* Runner::new: run has not been called, no thread is spawned
InitRunner ==
    /\ pc = "start"
    /\ flag = "absent"
    /\ iter = 0
    /\ binding = 0
    /\ live = 0
    /\ nreg = 0
    /\ rt = "none"
    /\ rtrace = << >>
    /\ invoked = {}
    /\ heard = << >>
    /\ written = << >>

\* the file system before any project is created: the directory the
\* projects go into exists
InitProject ==
    /\ disk = {<<<<"tmp">>>>}
    /\ outcome = [name |-> << >>, path |-> << >>, kind |-> "none",
                  arg |-> << >>, before |-> {}]
    /\ creates = 0

\* DspModule::new
Init ==
    /\ InitAudio
    /\ InitTimer
    /\ InitRunner
    /\ InitProject
    /\ nets = get_defaults
    /\ shared = << >>
    /\ shared_to_net = << >>
    /\ last = Call("new", "", Nil, Nil, 0, NoNet, Nil)
    /\ steps = 0
    /\ issued = 0 .. 6
    /\ allocs = 0
    /\ trail = << >>
    /\ before = Fields(nets, shared, shared_to_net)

ParamOps == {"shared_set", "shared_get"}

\* The call returns: `handle` is the arena handle it hands out (or Nil),
\* `alloc` whether it allocated a slot
Returned(call, handle, alloc) ==
    /\ UNCHANGED <<audio, commands, timer, passes, runner, render, project>>
    /\ last' = call
    /\ before' = Fields(nets, shared, shared_to_net)
    /\ steps' = steps + 1
    /\ issued' = IF handle = Nil THEN issued ELSE issued \cup {handle}
    /\ allocs' = IF alloc THEN allocs + 1 ELSE allocs
    /\ trail' = IF call.op \in ParamOps
                THEN IF Len(trail) < TrailLen THEN Append(trail, call)
                     ELSE Append(Tail(trail), call)
                ELSE << >>

DoNetExists(h) ==
    /\ steps < MaxSteps
    /\ Returned(Call("net_exists", "", h, Nil, 0, NoNet, net_exists(nets, h)),
                Nil, FALSE)
    /\ UNCHANGED dsp

DoNetVectorLength ==
    /\ steps < MaxSteps
    /\ Returned(Call("net_vector_length", "", Nil, Nil, 0, NoNet,
                     net_vector_length(nets)), Nil, FALSE)
    /\ UNCHANGED dsp

DoNetFrom(n) ==
    /\ steps < MaxSteps
    /\ LET r == net_from(nets, n)
       IN  /\ nets' = r.nets
           /\ Returned(Call("net_from", "", Nil, Nil, 0, n, r.ret), r.ret, TRUE)
    /\ UNCHANGED <<shared, shared_to_net>>

DoNetReplace(h, n) ==
    /\ steps < MaxSteps
    /\ LET r == net_replace(nets, h, n)
       IN  /\ nets' = r.nets
           /\ Returned(Call("net_replace", "", h, Nil, 0, n, r.ret), r.ret,
                       FALSE)
    /\ UNCHANGED <<shared, shared_to_net>>

DoNetConstant(v) ==
    /\ steps < MaxSteps
    /\ LET r == net_constant(nets, v)
       IN  /\ nets' = r.nets
           /\ Returned(Call("net_constant", "", Nil, Nil, v, NoNet, r.ret),
                       r.ret, TRUE)
    /\ UNCHANGED <<shared, shared_to_net>>

DoNetClone(h) ==
    /\ steps < MaxSteps
    /\ LET r == net_clone(nets, h)
       IN  /\ nets' = r.nets
           /\ Returned(Call("net_clone", "", h, Nil, 0, NoNet, r.ret), r.ret,
                       r.ret # Nil)
    /\ UNCHANGED <<shared, shared_to_net>>

DoNetDefault(t) ==
    /\ steps < MaxSteps
    /\ Returned(Call("net_default", t, Nil, Nil, 0, NoNet, net_default(t)),
                net_default(t), FALSE)
    /\ UNCHANGED dsp

DoNetProduct(a, b) ==
    /\ steps < MaxSteps
    /\ LET r == net_product(nets, a, b)
       IN  /\ nets' = r.nets
           /\ Returned(Call("net_product", "", a, b, 0, NoNet, r.ret), r.ret,
                       r.ret # Nil)
    /\ UNCHANGED <<shared, shared_to_net>>

DoNetBus(a, b) ==
    /\ steps < MaxSteps
    /\ LET r == net_bus(nets, a, b)
       IN  /\ nets' = r.nets
           /\ Returned(Call("net_bus", "", a, b, 0, NoNet, r.ret), r.ret,
                       r.ret # Nil)
    /\ UNCHANGED <<shared, shared_to_net>>

DoNetPipe(a, b) ==
    /\ steps < MaxSteps
    /\ LET r == net_pipe(nets, a, b)
       IN  /\ nets' = r.nets
           /\ Returned(Call("net_pipe", "", a, b, 0, NoNet, r.ret), r.ret,
                       r.ret # Nil)
    /\ UNCHANGED <<shared, shared_to_net>>

\* mutant: the queued events share the network of the slot they were
\* played from, so a chain on the slot edits them too
DoNetChain_aliased(h, t) ==
    /\ steps < MaxSteps
    /\ LET r == net_chain(nets, h, t)
       IN  /\ nets' = r.nets
           /\ sequencer' =
                 [i \in DOMAIN sequencer |->
                     IF net_exists(nets, h) /\ sequencer[i].unit = Slot(nets, h)
                     THEN [sequencer[i] EXCEPT !.unit = Slot(r.nets, h)]
                     ELSE sequencer[i]]
           /\ last' = Call("net_chain", t, h, Nil, 0, NoNet, r.ret)
    /\ before' = Fields(nets, shared, shared_to_net)
    /\ steps' = steps + 1
    /\ trail' = << >>
    /\ UNCHANGED <<shared, shared_to_net, issued, allocs, event_map,
                   next_event, commands, timer, passes, runner, render,
                   project>>

DoNetChain(h, t) ==
    /\ steps < MaxSteps
    /\ LET r == net_chain(nets, h, t)
       IN  /\ nets' = r.nets
           /\ Returned(Call("net_chain", t, h, Nil, 0, NoNet, r.ret), Nil,
                       FALSE)
    /\ UNCHANGED <<shared, shared_to_net>>

DoNetCommit(h) ==
    /\ steps < MaxSteps
    /\ nets' = net_commit(nets, h)
    /\ Returned(Call("net_commit", "", h, Nil, 0, NoNet, Nil), Nil, FALSE)
    /\ UNCHANGED <<shared, shared_to_net>>

DoSharedExists(name) ==
    /\ steps < MaxSteps
    /\ Returned(Call("shared_exists", name, Nil, Nil, 0, NoNet,
                     shared_exists(shared, name)), Nil, FALSE)
    /\ UNCHANGED dsp

DoSharedSet(name, v) ==
    /\ steps < MaxSteps
    /\ LET r == shared_set(nets, shared, shared_to_net, name, v)
       IN  /\ nets' = r.nets
           /\ shared' = r.shared
           /\ shared_to_net' = r.shared_to_net
           /\ Returned(Call("shared_set", name, Nil, Nil, v, NoNet, r.ret),
                       r.ret, ~shared_exists(shared, name))

DoSharedGet(name) ==
    /\ steps < MaxSteps
    /\ Returned(Call("shared_get", name, Nil, Nil, 0, NoNet,
                     shared_get(shared, name)), Nil, FALSE)
    /\ UNCHANGED dsp

DoSharedGetNet(name) ==
    /\ steps < MaxSteps
    /\ Returned(Call("shared_get_net", name, Nil, Nil, 0, NoNet,
                     shared_get_net(shared_to_net, name)),
                shared_get_net(shared_to_net, name), FALSE)
    /\ UNCHANGED dsp

Next ==
    \/ \E h \in Handles : DoNetExists(h)
    \/ DoNetVectorLength
    \/ \E n \in NewNets : DoNetFrom(n)
    \/ \E h \in Handles, n \in NewNets : DoNetReplace(h, n)
    \/ \E v \in Values : DoNetConstant(v)
    \/ \E h \in Handles : DoNetClone(h)
    \/ \E t \in OscNames \cup BadOscNames : DoNetDefault(t)
    \/ \E a \in Handles, b \in Handles : DoNetProduct(a, b)
    \/ \E a \in Handles, b \in Handles : DoNetBus(a, b)
    \/ \E a \in Handles, b \in Handles : DoNetPipe(a, b)
    \/ \E h \in Handles, t \in ChainTypes : DoNetChain(h, t)
    \/ \E h \in Handles : DoNetCommit(h)
    \/ \E name \in Names : DoSharedExists(name)
    \/ \E name \in Names, v \in Values : DoSharedSet(name, v)
    \/ \E name \in Names : DoSharedGet(name)
    \/ \E name \in Names : DoSharedGetNet(name)

Spec == Init /\ [][Next]_vars

----------------------------------------------------------------------------
(* Properties of the graph engine *)

\* Handles a claim ranges over: every slot and a few past the end
HandleSpace(ns) == 0 .. (Len(ns) + 2)

\* C1: a handle not yet issued does not exist; right after net_from returns
\* h, h exists, h + 1 does not, and h is the arena length before the call.
C1_FreshHandles ==
    /\ \A h \in HandleSpace(nets) : h \notin issued => ~net_exists(nets, h)
    /\ last.op = "net_from" =>
         /\ last.ret = Len(before.nets)
         /\ net_exists(nets, last.ret)
         /\ ~net_exists(nets, last.ret + 1)

\* C1 witness: net_from has returned a handle past the built-ins
C1_Witness ==
    /\ last.op = "net_from"
    /\ last.ret = 8
    /\ net_exists(nets, 8) /\ ~net_exists(nets, 9)

\* C2: the arena never shrinks, a valid handle stays valid, net_exists(h)
\* is h < net_vector_length(), and the arena starts with length 7.
C2_ArenaOnlyGrows ==
    /\ steps = 0 => Len(nets) = 7
    /\ \A h \in HandleSpace(nets) :
         net_exists(nets, h) <=> h < net_vector_length(nets)
    /\ Len(nets) >= Len(before.nets)
    /\ \A h \in HandleSpace(nets) :
         net_exists(before.nets, h) => net_exists(nets, h)

\* C2 witness: after two allocations a slot was edited in place by
\* net_replace or net_chain and the arena kept its length
C2_Witness ==
    /\ last.op \in {"net_replace", "net_chain"}
    /\ last.ret # Nil
    /\ allocs = 2
    /\ Len(nets) = 9

\* C3: net_replace(h, n) on a valid h returns h, overwrites only slot h and
\* keeps the arena length; on an invalid h it returns None and changes no slot.
C3_ReplaceFrame ==
    last.op = "net_replace" =>
        LET h == last.a
        IN  IF h < Len(before.nets)
            THEN /\ last.ret = h
                 /\ Len(nets) = Len(before.nets)
                 /\ Slot(nets, h) = last.net
                 /\ \A i \in 0 .. Len(before.nets) - 1 :
                       i # h => Slot(nets, i) = Slot(before.nets, i)
            ELSE /\ last.ret = Nil
                 /\ nets = before.nets

\* C3 witness: a replace of an issued slot has returned its handle and the
\* slot held another network before
C3_Witness ==
    /\ last.op = "net_replace"
    /\ last.ret = 7
    /\ Slot(nets, 7) = last.net
    /\ Slot(before.nets, 7) # last.net
    /\ Len(nets) = 9

\* C4: for valid a and b, net_bus builds the sum (if can_sum) whenever a or
\* b has zero inputs, and the structural bus (if can_bus) only when both
\* have inputs; the bus combinator never gets a zero-input operand.
C4_BusDegradesToSum ==
    (last.op = "net_bus" /\ last.a < Len(before.nets)
                         /\ last.b < Len(before.nets)) =>
        LET na == Slot(before.nets, last.a)
            nb == Slot(before.nets, last.b)
        IN  /\ (na.ins = 0 \/ nb.ins = 0) =>
                 IF can_sum(na, nb)
                 THEN /\ last.ret = Len(before.nets)
                      /\ nets = Append(before.nets, NetSum(na, nb))
                      /\ Slot(nets, last.ret).kind = "sum"
                 ELSE last.ret = Nil /\ nets = before.nets
            /\ (na.ins # 0 /\ nb.ins # 0) =>
                 IF can_bus(na, nb)
                 THEN /\ last.ret = Len(before.nets)
                      /\ nets = Append(before.nets, NetBus(na, nb))
                      /\ Slot(nets, last.ret).kind = "bus"
                 ELSE last.ret = Nil /\ nets = before.nets
            /\ (last.ret # Nil /\ Slot(nets, last.ret).kind = "bus") =>
                 (na.ins # 0 /\ nb.ins # 0)

\* C4 witness: net_bus of an operand with inputs and a zero-input operand
\* has returned a sum
C4_Witness ==
    /\ last.op = "net_bus"
    /\ last.ret # Nil
    /\ Slot(nets, last.a).ins # 0
    /\ Slot(nets, last.b).ins = 0
    /\ Slot(nets, last.ret).kind = "sum"

\* C5: net_product(a, b) returns None and leaves the arena unchanged
\* whenever a or b is not valid or the network at b has inputs.
C5_ProductNeedsZeroInputB ==
    last.op = "net_product" =>
        LET invalid == ~(last.a < Len(before.nets))
                          \/ ~(last.b < Len(before.nets))
        IN  (invalid \/ Slot(before.nets, last.b).ins # 0) =>
                (last.ret = Nil /\ nets = before.nets)

\* C5 witness: a product of valid handles whose outputs match was refused
\* because b has inputs
C5_Witness ==
    /\ last.op = "net_product"
    /\ last.a < Len(nets) /\ last.b < Len(nets)
    /\ Slot(nets, last.a).outs = Slot(nets, last.b).outs
    /\ Slot(nets, last.b).ins # 0
    /\ last.ret = Nil

\* C6: net_pipe(a, b) succeeds exactly when a and b are valid and the
\* outputs of a equal the inputs of b; otherwise None, arena unchanged.
C6_PipeArity ==
    last.op = "net_pipe" =>
        LET ok == /\ last.a < Len(before.nets)
                  /\ last.b < Len(before.nets)
                  /\ Slot(before.nets, last.a).outs = Slot(before.nets, last.b).ins
        IN  /\ (last.ret # Nil) <=> ok
            /\ ok => /\ last.ret = Len(before.nets)
                     /\ Len(nets) = Len(before.nets) + 1
            /\ ~ok => nets = before.nets

\* C6 witness: a pipe from a zero-input network into an oscillator succeeded
C6_Witness ==
    /\ last.op = "net_pipe"
    /\ last.ret # Nil
    /\ Slot(nets, last.a).ins = 0
    /\ Slot(nets, last.b).ins = 1

Combinators == {"net_product", "net_bus", "net_pipe", "net_clone"}

\* whether the last call was one that allocates when it succeeds
Allocated ==
    \/ last.op \in {"net_from", "net_constant"}
    \/ last.op \in Combinators /\ last.ret # Nil
    \/ last.op = "shared_set" /\ last.name \notin DOMAIN before.shared

\* C7: a successful product, bus, pipe or clone keeps every earlier slot,
\* appends one slot and returns the previous length; a failed one consumes
\* no handle; the k-th allocation of the session returns 7 + (k - 1).
C7_CombinatorsAllocate ==
    /\ last.op \in Combinators =>
         IF last.ret # Nil
         THEN /\ last.ret = Len(before.nets)
              /\ Len(nets) = Len(before.nets) + 1
              /\ SubSeq(nets, 1, Len(before.nets)) = before.nets
         ELSE nets = before.nets
    /\ Allocated => last.ret = 7 + (allocs - 1)
    /\ Len(nets) = 7 + allocs

\* C7 witness: the second allocation of a session with one call that did
\* not allocate is a combinator's, and it returned 8
C7_Witness ==
    /\ last.op \in Combinators
    /\ steps = 3
    /\ allocs = 2
    /\ last.ret = 8

\* the last three calls are set(name, v1), set(name, v2), get(name)
SetSetGet ==
    LET n == Len(trail)
    IN  /\ n >= 3
        /\ trail[n - 2].op = "shared_set"
        /\ trail[n - 1].op = "shared_set"
        /\ trail[n].op = "shared_get"
        /\ trail[n - 2].name = trail[n].name
        /\ trail[n - 1].name = trail[n].name

\* C8: shared_set(name, v1), shared_set(name, v2), shared_get(name) yields
\* v2, and both shared_set calls return the same handle.
C8_SetSetGet ==
    SetSetGet =>
        LET n == Len(trail)
        IN  /\ trail[n].ret = trail[n - 1].v
            /\ trail[n - 2].ret = trail[n - 1].ret

\* C8 witness: the three calls were made with v1 # v2
C8_Witness ==
    /\ SetSetGet
    /\ trail[Len(trail) - 2].v = 1
    /\ trail[Len(trail) - 1].v = 2
    /\ trail[Len(trail)].ret = 2

\* C9: shared_set on an unseen name appends one slot (the var network of the
\* name) and returns its handle; on an existing name the arena is unchanged;
\* the handle recorded for a name never changes and shared_get_net returns it.
C9_SharedHandleStable ==
    /\ last.op = "shared_set" =>
         /\ IF last.name \notin DOMAIN before.shared
            THEN /\ last.ret = Len(before.nets)
                 /\ nets = Append(before.nets, VarNet(last.name))
            ELSE nets = before.nets
         /\ shared_get_net(shared_to_net, last.name) = last.ret
    /\ \A name \in DOMAIN before.shared_to_net :
         /\ name \in DOMAIN shared_to_net
         /\ shared_to_net[name] = before.shared_to_net[name]
    /\ (last.op = "shared_get_net" /\ last.name \in DOMAIN before.shared) =>
         last.ret = before.shared_to_net[last.name]

\* C9 witness: the handle of the first set is returned by shared_get_net
\* after a later allocation
C9_Witness ==
    /\ last.op = "shared_get_net"
    /\ last.ret = 7
    /\ Len(nets) = 9

\* C9 witness of a set on an existing name
C9_WitnessExisting ==
    /\ last.op = "shared_set"
    /\ last.name \in DOMAIN before.shared
    /\ last.v # before.shared[last.name]

DefaultIndex ==
    [hammond |-> 0, organ |-> 1, saw |-> 2, sine |-> 3, softsaw |-> 4,
     square |-> 5, triangle |-> 6]

\* C10: net_default returns hammond=0, organ=1, saw=2, sine=3, softsaw=4,
\* square=5, triangle=6, each a valid handle, and nil for another name; it
\* changes nothing.
C10_DefaultIndices ==
    /\ \A t \in OscNames :
         net_default(t) = DefaultIndex[t] /\ net_exists(nets, net_default(t))
    /\ last.op = "net_default" =>
         /\ nets = before.nets
         /\ shared = before.shared
         /\ shared_to_net = before.shared_to_net
         /\ last.name \in OscNames =>
              last.ret = DefaultIndex[last.name] /\ last.ret < Len(nets)
         /\ last.name \notin OscNames => last.ret = Nil

\* C10 witness: triangle is looked up after the arena has grown
C10_Witness ==
    /\ last.op = "net_default"
    /\ last.name = "triangle"
    /\ last.ret = 6
    /\ Len(nets) = 9

\* C10 witness of an unknown oscillator name
C10_WitnessBadName ==
    /\ last.op = "net_default"
    /\ last.name \in BadOscNames
    /\ last.ret = Nil

----------------------------------------------------------------------------
(* Command strings.  A command is the list of tokens its text splits into
   at ';'; a token is a word, the decimal text of an integer ("3", "-1"),
   the text of a number with a fraction ("1.5"), or the Debug text of an
   EventId. *)

Tok(k, s, n) == [k |-> k, s |-> s, n |-> n]
W(s) == Tok("word", s, 0)
N(n) == Tok("int", "", n)
F(n) == Tok("frac", "", n)
E(n) == Tok("event", "", n)

\* &str::to_string of a token: the key the maps are indexed by
Text(t) ==
    CASE t.k = "word" -> t.s
      [] t.k = "int" -> ToString(t.n)
      [] t.k = "frac" -> ToString(t.n) \o ".5"
      [] t.k = "event" -> "EventId(" \o ToString(t.n) \o ")"

\* str::parse::<usize>().is_ok()
parses_usize(t) == t.k = "int" /\ t.n >= 0
\* str::parse::<usize>().unwrap()
parse_usize(t) == t.n

\* str::parse::<f32>().is_ok(), parse::<f64>().is_ok()
parses_float(t) == t.k \in {"int", "frac"}
\* str::parse::<f32>().unwrap(): the value, counted in halves
parse_float(t) == IF t.k = "int" THEN 2 * t.n ELSE 2 * t.n + 1

\* f32::to_string
float_to_string(v) == IF v % 2 = 0 THEN N(v \div 2) ELSE F((v - 1) \div 2)
\* usize::to_string
usize_to_string(h) == N(h)
\* bool::to_string
bool_to_string(b) == IF b THEN W("true") ELSE W("false")
\* Option<usize> turned into the returned string
option_to_string(r) == IF r = Nil THEN W("nil") ELSE usize_to_string(r)

\* Vec::get(i).is_some() of the split command
Has(arg_vec, i) == i < Len(arg_vec)
\* Vec::get(i).unwrap()
Get(arg_vec, i) == arg_vec[i + 1]

\* a command that returned a string, and one that panicked
Ret(m, t) == [panic |-> FALSE, ret |-> <<t>>, module |-> m]
Panic(m) == [panic |-> TRUE, ret |-> << >>, module |-> m]

\* .get(i).expect(..).parse::<usize>().expect(..) succeeds
UsizeArg(arg_vec, i) == Has(arg_vec, i) /\ parses_usize(Get(arg_vec, i))
\* .get(i).expect(..).parse::<f32>().expect(..) succeeds
FloatArg(arg_vec, i) == Has(arg_vec, i) /\ parses_float(Get(arg_vec, i))

----------------------------------------------------------------------------
(* DspModule::command *)

\* the module after a combinator returned r, and the string of its result
Combined(d, r) == Ret([d EXCEPT !.nets = r.nets], option_to_string(r.ret))

\* both handles of a two-handle command are present and parse
TwoHandles(arg_vec) == UsizeArg(arg_vec, 1) /\ UsizeArg(arg_vec, 2)

\* the "net_product" arm
DspNetProduct(d, arg_vec) ==
    IF ~TwoHandles(arg_vec) THEN Panic(d)
    ELSE Combined(d, net_product(d.nets, parse_usize(Get(arg_vec, 1)),
                                 parse_usize(Get(arg_vec, 2))))

\* the "net_bus" arm
DspNetBus(d, arg_vec) ==
    IF ~TwoHandles(arg_vec) THEN Panic(d)
    ELSE Combined(d, net_bus(d.nets, parse_usize(Get(arg_vec, 1)),
                             parse_usize(Get(arg_vec, 2))))

\* the "net_pipe" arm
DspNetPipe(d, arg_vec) ==
    IF ~TwoHandles(arg_vec) THEN Panic(d)
    ELSE Combined(d, net_pipe(d.nets, parse_usize(Get(arg_vec, 1)),
                              parse_usize(Get(arg_vec, 2))))

\* net_default read as keeping an unknown name's "nil" a fresh handle
DspNetDefault_alloc(d, arg_vec) ==
    IF ~Has(arg_vec, 1) THEN Panic(d)
    ELSE IF net_default(Text(Get(arg_vec, 1))) = Nil
         THEN Combined(d, net_constant(d.nets, 0))
         ELSE Combined(d, [nets |-> d.nets,
                           ret |-> net_default(Text(Get(arg_vec, 1)))])

\* the "net_default" arm
DspNetDefault(d, arg_vec) ==
    IF ~Has(arg_vec, 1) THEN Panic(d)
    ELSE Combined(d, [nets |-> d.nets,
                      ret |-> net_default(Text(Get(arg_vec, 1)))])

\* net_clone read as answering "nil" to a handle that is no usize
DspNetClone_lenient(d, arg_vec) ==
    IF ~Has(arg_vec, 1) THEN Panic(d)
    ELSE IF ~parses_usize(Get(arg_vec, 1)) THEN Ret(d, W("nil"))
    ELSE Combined(d, net_clone(d.nets, parse_usize(Get(arg_vec, 1))))

\* the "net_clone" arm
DspNetClone(d, arg_vec) ==
    IF ~UsizeArg(arg_vec, 1) THEN Panic(d)
    ELSE Combined(d, net_clone(d.nets, parse_usize(Get(arg_vec, 1))))

\* the "shared_set" arm
DspSharedSet(d, arg_vec) ==
    IF ~Has(arg_vec, 1) \/ ~FloatArg(arg_vec, 2) THEN Panic(d)
    ELSE LET r == shared_set(d.nets, d.shared, d.shared_to_net,
                             Text(Get(arg_vec, 1)),
                             parse_float(Get(arg_vec, 2)))
         IN  Ret(Fields(r.nets, r.shared, r.shared_to_net),
                 usize_to_string(r.ret))

\* the "shared_get" arm
DspSharedGet(d, arg_vec) ==
    IF ~Has(arg_vec, 1) THEN Panic(d)
    ELSE IF ~shared_exists(d.shared, Text(Get(arg_vec, 1)))
         THEN Ret(d, W("nil"))
         ELSE Ret(d, float_to_string(shared_get(d.shared,
                                                Text(Get(arg_vec, 1)))))

\* the "net_commit" arm, which falls through to the final "nil"
DspNetCommit(d, arg_vec) ==
    IF ~UsizeArg(arg_vec, 1) THEN Panic(d)
    ELSE Ret([d EXCEPT !.nets = net_commit(d.nets,
                                           parse_usize(Get(arg_vec, 1)))],
             W("nil"))

\* DspModule::command: the match on token 0
DspCommand(d, arg_vec) ==
    LET arg_cmd == Get(arg_vec, 0)
    IN  CASE arg_cmd = W("shared_exists") ->
               IF ~Has(arg_vec, 1) THEN Panic(d)
               ELSE Ret(d, bool_to_string(
                            shared_exists(d.shared, Text(Get(arg_vec, 1)))))
          [] arg_cmd = W("shared_set") -> DspSharedSet(d, arg_vec)
          [] arg_cmd = W("shared_get") -> DspSharedGet(d, arg_vec)
          [] arg_cmd = W("shared_get_net") ->
               IF ~Has(arg_vec, 1) THEN Panic(d)
               ELSE Ret(d, option_to_string(
                            shared_get_net(d.shared_to_net,
                                           Text(Get(arg_vec, 1)))))
          [] arg_cmd = W("net_exists") ->
               IF ~UsizeArg(arg_vec, 1) THEN Panic(d)
               ELSE Ret(d, bool_to_string(
                            net_exists(d.nets, parse_usize(Get(arg_vec, 1)))))
          [] arg_cmd = W("net_clone") -> DspNetClone(d, arg_vec)
          [] arg_cmd = W("net_constant") ->
               IF ~FloatArg(arg_vec, 1) THEN Panic(d)
               ELSE Combined(d, net_constant(d.nets,
                                             parse_float(Get(arg_vec, 1))))
          [] arg_cmd = W("net_vector_length") ->
               Ret(d, usize_to_string(net_vector_length(d.nets)))
          [] arg_cmd = W("net_default") -> DspNetDefault(d, arg_vec)
          [] arg_cmd = W("net_product") -> DspNetProduct(d, arg_vec)
          [] arg_cmd = W("net_bus") -> DspNetBus(d, arg_vec)
          [] arg_cmd = W("net_pipe") -> DspNetPipe(d, arg_vec)
          [] arg_cmd = W("net_commit") -> DspNetCommit(d, arg_vec)
          [] OTHER -> Panic(d)

----------------------------------------------------------------------------
(* AudioModule: play and stop on the Sequencer, and the entry point *)

\* commands one session may send
MaxCmds == 3

\* the fade-in and fade-out time of play and stop, in hundredths of a second
FadeTime == 1

\* the clone read as a copy that holds the cells' values, not the cells
get_net_frozen(ns, target) ==
    IF ~net_exists(ns, target) THEN << >>
    ELSE <<[Slot(ns, target) EXCEPT !.refs = {}]>>

\* DspModule::get_net: Some(copy of the slot) or None
get_net(ns, target) ==
    IF ~net_exists(ns, target) THEN << >> ELSE <<Slot(ns, target)>>

\* Sequencer::push_relative: the event queued and its fresh EventId
push_relative(seq, nxt, duration, fade_in, fade_out, unit) ==
    [sequencer |-> Append(seq, [id |-> nxt, unit |-> unit,
                                duration |-> duration, fade_in |-> fade_in,
                                fade_out |-> fade_out, edited |-> FALSE]),
     next_event |-> nxt + 1,
     event_id |-> nxt]

\* Sequencer::edit_relative: the event's end and fade-out are rewritten
edit_relative(seq, id, end_time, fade_out) ==
    [i \in DOMAIN seq |->
        IF seq[i].id = id
        THEN [seq[i] EXCEPT !.duration = end_time, !.fade_out = fade_out,
                            !.edited = TRUE]
        ELSE seq[i]]

\* format!("{:?}", event_id)
event_name(event_id) == E(event_id)

\* play read as queueing whatever the handle names, valid or not
play_unchecked(m, arg_vec) ==
    IF ~UsizeArg(arg_vec, 1) \/ ~FloatArg(arg_vec, 2) THEN Panic(m)
    ELSE LET pushed == push_relative(m.sequencer, m.next_event,
                                     parse_float(Get(arg_vec, 2)),
                                     FadeTime, FadeTime, NoNet)
         IN  Ret([m EXCEPT !.sequencer = pushed.sequencer,
                           !.next_event = pushed.next_event,
                           !.event_map = Insert(m.event_map,
                                        Text(event_name(pushed.event_id)),
                                        pushed.event_id)],
                 event_name(pushed.event_id))

\* mutant: play keeps only the id of the event it queued
play_single(m, arg_vec) ==
    IF ~UsizeArg(arg_vec, 1) \/ ~FloatArg(arg_vec, 2) THEN Panic(m)
    ELSE LET net == get_net(m.dsp.nets, parse_usize(Get(arg_vec, 1)))
         IN  IF net = << >> THEN Ret(m, W("nil"))
             ELSE LET pushed == push_relative(m.sequencer, m.next_event,
                                     parse_float(Get(arg_vec, 2)),
                                     FadeTime, FadeTime, net[1])
                  IN  Ret([m EXCEPT !.sequencer = pushed.sequencer,
                                    !.next_event = pushed.next_event,
                                    !.event_map = Insert(<< >>,
                                        Text(event_name(pushed.event_id)),
                                        pushed.event_id)],
                          event_name(pushed.event_id))

\* the "play" arm of AudioModule::handle_command
play(m, arg_vec) ==
    IF ~UsizeArg(arg_vec, 1) \/ ~FloatArg(arg_vec, 2) THEN Panic(m)
    ELSE LET net == get_net(m.dsp.nets, parse_usize(Get(arg_vec, 1)))
         IN  IF net = << >> THEN Ret(m, W("nil"))
             ELSE LET pushed == push_relative(m.sequencer, m.next_event,
                                     parse_float(Get(arg_vec, 2)),
                                     FadeTime, FadeTime, net[1])
                  IN  Ret([m EXCEPT !.sequencer = pushed.sequencer,
                                    !.next_event = pushed.next_event,
                                    !.event_map = Insert(m.event_map,
                                        Text(event_name(pushed.event_id)),
                                        pushed.event_id)],
                          event_name(pushed.event_id))

\* stop read as forgetting the id once the event is stopped
stop_forgets(m, arg_vec) ==
    IF ~Has(arg_vec, 1) THEN Panic(m)
    ELSE LET arg_event_id == Text(Get(arg_vec, 1))
         IN  IF arg_event_id \notin DOMAIN m.event_map
             THEN Ret(m, bool_to_string(FALSE))
             ELSE Ret([m EXCEPT !.event_map =
                           [k \in DOMAIN m.event_map \ {arg_event_id} |->
                               m.event_map[k]]],
                      bool_to_string(TRUE))

\* the "stop" arm of AudioModule::handle_command
stop(m, arg_vec) ==
    IF ~Has(arg_vec, 1) THEN Panic(m)
    ELSE LET arg_event_id == Text(Get(arg_vec, 1))
         IN  IF arg_event_id \notin DOMAIN m.event_map
             THEN Ret(m, bool_to_string(FALSE))
             ELSE Ret([m EXCEPT !.sequencer =
                           edit_relative(m.sequencer,
                                         m.event_map[arg_event_id],
                                         FadeTime, FadeTime)],
                      bool_to_string(TRUE))

\* AudioModule::handle_command
handle_command(m, arg_vec) ==
    LET arg_cmd == Get(arg_vec, 0)
    IN  CASE arg_cmd = W("play") -> play(m, arg_vec)
          [] arg_cmd = W("stop") -> stop(m, arg_vec)
          [] OTHER -> Panic(m)

\* the entry point read as handing the whole string to the sub-module
AudioCommand_whole(m, arg_vec) ==
    LET arg_cmd == Get(arg_vec, 0)
    IN  IF arg_cmd = W("dsp")
        THEN LET r == DspCommand(m.dsp, arg_vec)
             IN  [panic |-> r.panic, ret |-> r.ret,
                  module |-> [m EXCEPT !.dsp = r.module]]
        ELSE IF arg_cmd = W("audio")
        THEN IF ~Has(arg_vec, 1) THEN Panic(m)
             ELSE handle_command(m, Tail(arg_vec))
        ELSE Panic(m)

\* AudioModule::command; strip_prefix("dsp;") of a string whose token 0 is
\* "dsp" fails exactly when the string has no second token
AudioCommand(m, arg_vec) ==
    LET arg_cmd == Get(arg_vec, 0)
    IN  IF arg_cmd = W("dsp")
        THEN IF ~Has(arg_vec, 1) THEN Panic(m)
             ELSE LET r == DspCommand(m.dsp, Tail(arg_vec))
                  IN  [panic |-> r.panic, ret |-> r.ret,
                       module |-> [m EXCEPT !.dsp = r.module]]
        ELSE IF arg_cmd = W("audio")
        THEN IF ~Has(arg_vec, 1) THEN Panic(m)
             ELSE handle_command(m, Tail(arg_vec))
        ELSE Panic(m)

----------------------------------------------------------------------------
(* The command session: strings sent to AudioModule::command *)

Cmd0(op) == {<<W(op)>>}
Cmd1(op, A) == {<<W(op), a>> : a \in A}
Cmd2(op, A, B) == {<<W(op), a, b>> : a \in A, b \in B}

DspOps ==
    {"shared_exists", "shared_set", "shared_get", "shared_get_net",
     "net_exists", "net_clone", "net_constant", "net_vector_length",
     "net_default", "net_product", "net_bus", "net_pipe", "net_commit"}
TwoHandleOps == {"net_product", "net_bus", "net_pipe"}

\* handles sent: a default oscillator, the first allocated slot, a later one
SentHandles == {N(3), N(7), N(9)}
\* a token that is a number but no usize
NotUsize == N(-1)
\* a token that is no number
NotNumber == W("f")

\* command strings for the synthesis sub-module
DspStrings ==
    UNION {Cmd0(op) : op \in DspOps \cup {"bogus", ""}}
    \cup Cmd1("shared_exists", {W("f")})
    \cup Cmd1("shared_set", {W("f")})
    \cup Cmd2("shared_set", {W("f")}, {N(1), F(1), NotNumber})
    \cup Cmd1("shared_get", {W("f")})
    \cup Cmd1("shared_get_net", {W("f")})
    \cup Cmd1("net_exists", SentHandles \cup {NotUsize})
    \cup Cmd1("net_clone", SentHandles \cup {NotUsize})
    \cup Cmd1("net_constant", {N(1), NotNumber})
    \cup Cmd1("net_default", {W("sine"), W("badinput")})
    \cup Cmd1("net_commit", SentHandles \cup {NotUsize})
    \cup UNION {Cmd1(op, {N(3)}) : op \in TwoHandleOps}
    \cup UNION {Cmd2(op, {N(3)}, {NotUsize}) : op \in TwoHandleOps}
    \cup UNION {Cmd2(op, SentHandles, SentHandles) : op \in TwoHandleOps}

\* command strings for play and stop
AudioStrings ==
    Cmd0("play") \cup Cmd0("stop") \cup Cmd0("bogus")
    \cup Cmd1("play", {N(3)})
    \cup Cmd2("play", SentHandles \cup {NotUsize}, {N(1), NotNumber})
    \cup Cmd1("stop", {E(0), E(1), W("f"), N(0)})

\* strings whose token 0 is neither "dsp" nor "audio", and the two bare names
OtherStrings ==
    {<<W("dsp")>>, <<W("audio")>>, <<W("bogus")>>, <<W("")>>,
     <<W("net_vector_length")>>, <<W("play"), N(3), N(1)>>}

\* the AudioModule as one record
TheModule ==
    Module(Fields(nets, shared, shared_to_net), sequencer, event_map,
           next_event)

\* a play that returned an event id
PlayReturned(arg_vec, r) ==
    /\ ~r.panic
    /\ Len(arg_vec) > 1
    /\ arg_vec[1] = W("audio")
    /\ arg_vec[2] = W("play")
    /\ r.ret # <<W("nil")>>

\* one call of AudioModule::command
Send(arg_vec) ==
    /\ ~aborted
    /\ cmds < MaxCmds
    /\ LET r == AudioCommand(TheModule, arg_vec)
       IN  /\ aborted' = r.panic
           /\ cmd' = [arg |-> arg_vec, ret |-> r.ret]
           /\ abefore' = TheModule
           /\ cmds' = cmds + 1
           /\ played' = IF PlayReturned(arg_vec, r)
                        THEN played \cup {r.ret[1]} ELSE played
           /\ nets' = r.module.dsp.nets
           /\ shared' = r.module.dsp.shared
           /\ shared_to_net' = r.module.dsp.shared_to_net
           /\ sequencer' = r.module.sequencer
           /\ event_map' = r.module.event_map
           /\ next_event' = r.module.next_event
    /\ UNCHANGED <<session, timer, passes, runner>>

SendDsp ==
    \E s \in DspStrings : Send(<<W("dsp")>> \o s) /\ UNCHANGED <<render, project>>
SendAudio ==
    \E s \in AudioStrings : Send(<<W("audio")>> \o s) /\ UNCHANGED <<render, project>>
SendOther ==
    \E s \in OtherStrings : Send(s) /\ UNCHANGED <<render, project>>

NextCmd == SendDsp \/ SendAudio \/ SendOther

SpecCmd == Init /\ [][NextCmd]_vars

----------------------------------------------------------------------------
(* Claims about play, stop and the command dispatch *)

\* the last command was sent to the audio entry point as "audio;<op>;..."
\* and returned
AudioOp(op) ==
    /\ ~aborted
    /\ Len(cmd.arg) >= 2
    /\ cmd.arg[1] = W("audio")
    /\ cmd.arg[2] = W(op)

\* the synthesis sub-module as the last command left it
DspNow == Fields(nets, shared, shared_to_net)

C11_WitnessInvalid ==
    /\ AudioOp("play")
    /\ cmd.arg[3] = N(9)
    /\ cmd.ret = <<W("nil")>>
    /\ Len(abefore.sequencer) = 1

\* C12: stop(id) returns "true" exactly when id is a string an earlier play
\* of the session returned, and "false" for every other string; a "false"
\* leaves the event queue and the recognized ids as they were.
C12_Stop ==
    AudioOp("stop") =>
        /\ cmd.ret \in {<<W("true")>>, <<W("false")>>}
        /\ cmd.ret = <<W("true")>> <=> cmd.arg[3] \in played
        /\ cmd.ret = <<W("false")>> =>
               /\ sequencer = abefore.sequencer
               /\ event_map = abefore.event_map
        /\ DspNow = abefore.dsp

\* C12 witness: the id of a play is stopped a second time
C12_Witness ==
    /\ AudioOp("stop")
    /\ cmd.arg[3] = E(0)
    /\ cmd.ret = <<W("true")>>
    /\ abefore.sequencer[1].edited

\* C12 witness of an id no play has returned yet
C12_WitnessUnknown ==
    /\ AudioOp("stop")
    /\ cmd.arg[3] = E(1)
    /\ played = {E(0)}
    /\ cmd.ret = <<W("false")>>

\* the argument types each operation requires after its name
Signature ==
    [shared_exists |-> <<"name">>, shared_set |-> <<"name", "float">>,
     shared_get |-> <<"name">>, shared_get_net |-> <<"name">>,
     net_exists |-> <<"usize">>, net_clone |-> <<"usize">>,
     net_constant |-> <<"float">>, net_vector_length |-> << >>,
     net_default |-> <<"name">>, net_product |-> <<"usize", "usize">>,
     net_bus |-> <<"usize", "usize">>, net_pipe |-> <<"usize", "usize">>,
     net_commit |-> <<"usize">>,
     play |-> <<"usize", "float">>, stop |-> <<"name">>]

AudioOps == {"play", "stop"}

\* the token is text of the type
ParsesAs(t, type) ==
    CASE type = "usize" -> t.k = "int" /\ t.n >= 0
      [] type = "float" -> t.k \in {"int", "frac"}
      [] type = "name" -> TRUE

\* the command names no operation of ops, lacks a required argument, or
\* has an argument that is not text of the required type
Malformed(v, ops) ==
    \/ v[1].k # "word"
    \/ v[1].s \notin ops
    \/ /\ v[1].k = "word"
       /\ v[1].s \in ops
       /\ LET sig == Signature[v[1].s]
          IN  \/ Len(v) - 1 < Len(sig)
              \/ \E i \in 1 .. Len(sig) :
                     i + 1 <= Len(v) /\ ~ParsesAs(v[i + 1], sig[i])

\* the same for a string sent to the audio entry point
MalformedOuter(v) ==
    \/ v[1] \notin {W("dsp"), W("audio")}
    \/ Len(v) < 2
    \/ v[1] = W("dsp") /\ Len(v) >= 2 /\ Malformed(Tail(v), DspOps)
    \/ v[1] = W("audio") /\ Len(v) >= 2 /\ Malformed(Tail(v), AudioOps)

\* C13: a command whose token 0 names no operation, that lacks a required
\* argument token, or whose argument does not parse as the required type
\* aborts the program: it returns no result, and never "nil".
C13_MalformedAborts ==
    (cmds > 0 /\ MalformedOuter(cmd.arg)) =>
        /\ aborted
        /\ cmd.ret = << >>
        /\ TheModule = abefore

\* C13 witness: the third command of a session has a handle that is no usize
C13_Witness ==
    /\ cmds = 3
    /\ cmd.arg = <<W("dsp"), W("net_clone"), NotUsize>>
    /\ aborted

\* C13 witness of a missing argument and of an unknown operation
C13_WitnessMissing ==
    /\ cmd.arg \in {<<W("audio"), W("play"), N(3)>>,
                    <<W("dsp"), W("bogus")>>}
    /\ aborted

\* the handle arguments of a well-formed command
HandleArgs(v) ==
    {v[i + 1].n : i \in {i \in 1 .. Len(Signature[v[1].s]) :
                            Signature[v[1].s][i] = "usize"}}

\* the arities of the two operands do not allow the combinator
Incompatible(op, a, b) ==
    CASE op = "net_product" -> b.ins # 0 \/ ~can_product(a, b)
      [] op = "net_bus" -> IF a.ins = 0 \/ b.ins = 0
                           THEN ~can_sum(a, b) ELSE ~can_bus(a, b)
      [] op = "net_pipe" -> ~can_pipe(a, b)
      [] OTHER -> FALSE

\* a well-formed command v whose operands are invalid for the module m:
\* a handle past the arena, operands of incompatible arities, an event id
\* or an oscillator name that is not recognized, a parameter never set
SemanticallyInvalid(v, m) ==
    \/ \E h \in HandleArgs(v) : ~(h < Len(m.dsp.nets))
    \/ /\ v[1].s \in TwoHandleOps
       /\ \A h \in HandleArgs(v) : h < Len(m.dsp.nets)
       /\ Incompatible(v[1].s, m.dsp.nets[v[2].n + 1], m.dsp.nets[v[3].n + 1])
    \/ v[1] = W("stop") /\ Text(v[2]) \notin DOMAIN m.event_map
    \/ v[1] = W("net_default") /\ Text(v[2]) \notin OscNames
    \/ v[1] \in {W("shared_get"), W("shared_get_net")}
           /\ Text(v[2]) \notin DOMAIN m.dsp.shared

C14_WitnessOthers ==
    /\ ~aborted
    /\ cmd.arg \in {<<W("dsp"), W("net_default"), W("badinput")>>,
                    <<W("dsp"), W("shared_get"), W("f")>>,
                    <<W("dsp"), W("net_exists"), N(9)>>,
                    <<W("audio"), W("stop"), E(1)>>}
    /\ SemanticallyInvalid(Tail(cmd.arg), abefore)

\* what the last command did: whether it aborted, what it returned, and
\* the module it left
Outcome == [panic |-> aborted, ret |-> cmd.ret, module |-> TheModule]

\* C15: "dsp;" followed by s, sent to the audio entry point, has the result
\* and the state change of s sent to the synthesis sub-module itself;
\* "audio;" followed by s is routed to play and stop; a string with any
\* other token 0 is fatal.
C15_Routing ==
    cmds > 0 =>
        LET v == cmd.arg
        IN  /\ (v[1] = W("dsp") /\ Len(v) >= 2) =>
                   LET direct == DspCommand(abefore.dsp, Tail(v))
                   IN  /\ aborted = direct.panic
                       /\ cmd.ret = direct.ret
                       /\ DspNow = direct.module
                       /\ <<sequencer, event_map, next_event>> =
                              <<abefore.sequencer, abefore.event_map,
                                abefore.next_event>>
            /\ (v[1] = W("audio") /\ Len(v) >= 2 /\ v[2] = W("play")) =>
                   Outcome = play(abefore, Tail(v))
            /\ (v[1] = W("audio") /\ Len(v) >= 2 /\ v[2] = W("stop")) =>
                   Outcome = stop(abefore, Tail(v))
            /\ (v[1] = W("audio") /\ Len(v) >= 2
                    /\ v[2] \notin {W("play"), W("stop")}) => aborted
            /\ v[1] \notin {W("dsp"), W("audio")} =>
                   aborted /\ TheModule = abefore

\* C15 witness: a parameter is set a second time through the entry point
C15_Witness ==
    /\ ~aborted
    /\ cmd.arg = <<W("dsp"), W("shared_set"), W("f"), F(1)>>
    /\ abefore.dsp.shared = [n \in {"f"} |-> 2]
    /\ shared = [n \in {"f"} |-> 3]
    /\ cmd.ret = <<N(7)>>

\* C15 witness of an operation name sent without its prefix
C15_WitnessOther ==
    /\ aborted
    /\ cmd.arg = <<W("play"), N(3), N(1)>>

----------------------------------------------------------------------------
(* TimerModule: the update pass over Timer._Callbacks.  Times are counted
   in tenths of a second. *)

\* update calls in one session
MaxUpdates == 3
\* timer calls the script makes in one session
MaxCalls == 2
\* loop iterations of a run
MaxIter == 2

\* the times update is called with
Times == {0, 5, 10, 19, 20, 30}
\* the tempos the script sets
BPMs == {60, 120}

\* the f64 a script gets from math.huge
Infinity == 1000000

\* (60.0 / bpm) * call_freq, in tenths of a second: nothing at an infinite
\* tempo, below zero at a tempo below zero
Period(b, call_freq) ==
    IF b = Infinity THEN 0
    ELSE IF b < 0 THEN 0 - ((600 * call_freq) \div (0 - b))
    ELSE (600 * call_freq) \div b

\* Table without the key
Remove(map, key) == [k \in DOMAIN map \ {key} |-> map[k]]

\* Timer:Disable(): the entry leaves Timer._Callbacks
Disable(cbs, name) == Remove(cbs, name)

\* the entry of a timer object in Timer._Callbacks
Entry(obj, start) ==
    [type |-> obj.type, function |-> obj.function,
     frequency |-> obj.frequency, time |-> start, limit |-> obj.limit]

\* Timer:Enable(delay): the entry enters Timer._Callbacks with the time of
\* its first fire
Enable(cbs, name, start) ==
    Insert(cbs, name, Entry(TimerDefs[name], start))

\* the first fire times Enable may set: none for a timer enabled without
\* delay at offset 0, else the offset, one beat period later with delay,
\* counted from zero or from the published time
StartTimesOf(def, delay, b, time) ==
    LET wait == IF delay THEN Period(b, def.frequency) ELSE 0
    IN  IF def.type = "tick" THEN {Nil}
        ELSE {def.offset + wait, time + def.offset + wait}
             \cup (IF ~delay /\ def.offset = 0 THEN {Nil} ELSE {})

\* the first fire times of the timer of the name
StartTimes(name, delay, b, time) ==
    StartTimesOf(TimerDefs[name], delay, b, time)

\* GetTime() in a script: the value of Timer._Time
GetTime(st) == st.published

\* call_func.call(time): the script's callback takes the time it is handed
\* and the time GetTime returns, counts its invocations and
\* disables its timer on the invocation its limit names
Invoke(st, name, time) ==
    LET n == st.count[name] + 1
        limit == st.callbacks[name].limit
    IN  [st EXCEPT !.count[name] = n,
                   !.fired[name] = @ + 1,
                   !.seen = Append(@, [name |-> name, arg |-> time,
                                       read |-> GetTime(st)]),
                   !.callbacks = IF n = limit THEN Disable(@, name) ELSE @]

\* the Tick arm read as firing only when time has moved since the last tick
VisitTick_elapsed(st, name, time) ==
    IF st.callbacks[name].time = Nil \/ time > st.callbacks[name].time
    THEN Invoke([st EXCEPT !.callbacks[name].time = time], name, time)
    ELSE st

\* the Tick arm of TimerModule::update
VisitTick(st, name, time) == Invoke(st, name, time)

\* value.get("time").unwrap_or(0.0)
call_time(value) == IF value.time = Nil THEN 0 ELSE value.time

\* the Beat arm read as firing only after the fire time has passed
VisitBeat_strict(st, name, time, b) ==
    LET value == st.callbacks[name]
    IN  IF time - call_time(value) > 0
        THEN Invoke([st EXCEPT !.callbacks[name].time =
                                   time + Period(b, value.frequency)], name, time)
        ELSE st

\* the Beat arm read as keeping the beat grid of the previous fire time
VisitBeat_grid(st, name, time, b) ==
    LET value == st.callbacks[name]
    IN  IF time - call_time(value) >= 0
        THEN Invoke([st EXCEPT !.callbacks[name].time =
                         call_time(value) + Period(b, value.frequency)], name, time)
        ELSE st

\* the Beat arm read as taking the period of 60 BPM whatever the tempo
VisitBeat_tempoless(st, name, time, b) ==
    LET value == st.callbacks[name]
    IN  IF time - call_time(value) >= 0
        THEN Invoke([st EXCEPT !.callbacks[name].time =
                                   time + Period(60, value.frequency)], name, time)
        ELSE st

\* the Beat arm read as counting the time of the pass in beats of the tempo
VisitBeat_beats(st, name, time, b) ==
    LET value == st.callbacks[name]
    IN  IF (time * b) \div 60 - call_time(value) >= 0
        THEN Invoke([st EXCEPT !.callbacks[name].time =
                                   time + Period(b, value.frequency)], name, time)
        ELSE st

\* the Beat arm read as leaving the fire time of the entry as it was
VisitBeat_rearm(st, name, time, b) ==
    LET value == st.callbacks[name]
    IN  IF time - call_time(value) >= 0
        THEN Invoke(st, name, time)
        ELSE st

\* the Beat arm of TimerModule::update
VisitBeat(st, name, time, b) ==
    LET value == st.callbacks[name]
    IN  IF time - call_time(value) >= 0
        THEN Invoke([st EXCEPT !.callbacks[name].time =
                                   time + Period(b, value.frequency)], name, time)
        ELSE st

\* value.get(..).expect(..): update panics on an entry without a type of
\* tick or beat, without a function or, for a beat, without a frequency
Readable(value) ==
    /\ value.type \in {"tick", "beat"}
    /\ value.function
    /\ value.type = "beat" => value.frequency # Nil

\* one turn of the loop over callbacks.pairs()
Visit(st, name, time, b) ==
    LET seen == [st EXCEPT !.visited = @ \cup {name}]
    IN  IF ~Readable(st.callbacks[name]) THEN [seen EXCEPT !.panic = TRUE]
        ELSE IF st.callbacks[name].type = "beat"
        THEN VisitBeat(seen, name, time, b)
        ELSE VisitTick(seen, name, time)

\* the loop read as ending once a callback has left the table
RECURSIVE UpdatePass_stops(_, _, _, _)
UpdatePass_stops(st, order, time, b) ==
    IF order = << >> \/ st.visited \ DOMAIN st.callbacks # {} THEN st
    ELSE UpdatePass_stops(IF Head(order) \in DOMAIN st.callbacks
                          THEN Visit(st, Head(order), time, b) ELSE st,
                          Tail(order), time, b)

\* for pair in callbacks.pairs(): the entries still in the table are
\* visited in the table's order
RECURSIVE UpdatePass(_, _, _, _)
UpdatePass(st, order, time, b) ==
    IF order = << >> \/ st.panic THEN st
    ELSE UpdatePass(IF Head(order) \in DOMAIN st.callbacks
                    THEN Visit(st, Head(order), time, b) ELSE st,
                    Tail(order), time, b)

\* the orders pairs() may walk the keys in
Orders(keys) ==
    {order \in [1 .. Cardinality(keys) -> keys] :
        \A i, j \in DOMAIN order : i # j => order[i] # order[j]}

\* timer.set("_Time", time)
Publish(st, time) == [st EXCEPT !.published = time]

\* the body of update read as publishing the time after the callbacks
update_late(st, order, time, b) ==
    Publish(UpdatePass(st, order, time, b), time)

\* the body of TimerModule::update: the time is published, then the
\* callbacks are walked
update(st, order, time, b) ==
    UpdatePass(Publish(st, time), order, time, b)

\* TimerModule::update, called with a time that is not before the last
UpdateBody(time) ==
    /\ ~upd.panic
    /\ time >= published
    /\ \E order \in Orders(DOMAIN callbacks) :
          LET st == update([callbacks |-> callbacks, count |-> count,
                            fired |-> [n \in TimerNames |-> 0],
                            visited |-> {}, published |-> published,
                            seen |-> << >>, panic |-> FALSE],
                           order, time, bpm)
          IN  /\ callbacks' = st.callbacks
              /\ count' = st.count
              /\ published' = st.published
              /\ upd' = [now |-> time, bpm |-> bpm, before |-> callbacks,
                         cbefore |-> count, fired |-> st.fired,
                         visited |-> st.visited, order |-> order,
                         off |-> off, after |-> st.callbacks,
                         seen |-> st.seen, last |-> published,
                         panic |-> st.panic]
              /\ off' = off \cup (DOMAIN callbacks \ DOMAIN st.callbacks)
              /\ log' = IF steady
                        THEN Append(log, [now |-> time, bpm |-> bpm,
                                          before |-> callbacks,
                                          fired |-> st.fired])
                        ELSE log
    /\ updates' = updates + 1
    /\ UNCHANGED <<bpm, steady, calls, tempo, tried>>
    /\ UNCHANGED <<dsp, session, audio, commands>>

\* TimerModule::update, as often as a session calls it
Update(time) ==
    /\ updates < MaxUpdates
    /\ UpdateBody(time)

\* a timer call of the script; one made after the first update ends the
\* record of passes
Stepped ==
    /\ ~upd.panic
    /\ calls < MaxCalls
    /\ calls' = calls + 1
    /\ steady' = (steady /\ updates = 0)
    /\ log' = << >>
    /\ UNCHANGED <<published, count, upd, updates, tempo, tried>>
    /\ UNCHANGED <<dsp, session, audio, commands, runner, render, project>>

\* timer:Enable(delay) in the script
ScriptEnable(name, delay) ==
    /\ name \notin DOMAIN callbacks
    /\ \E start \in StartTimes(name, delay, bpm, published) :
          callbacks' = Enable(callbacks, name, start)
    /\ off' = off \ {name}
    /\ Stepped
    /\ UNCHANGED bpm

\* timer:Disable() in the script, outside the timer's callback
ScriptDisable(name) ==
    /\ name \in DOMAIN callbacks
    /\ callbacks' = Disable(callbacks, name)
    /\ off' = off \cup {name}
    /\ Stepped
    /\ UNCHANGED bpm

\* SetBPM(b) in the script
SetBPM(b) ==
    /\ b # bpm
    /\ bpm' = b
    /\ Stepped
    /\ UNCHANGED <<callbacks, off>>

NextTimer ==
    \/ \E time \in Times : Update(time) /\ UNCHANGED <<runner, render, project>>
    \/ \E name \in TimerNames, delay \in BOOLEAN : ScriptEnable(name, delay)
    \/ \E name \in TimerNames : ScriptDisable(name)
    \/ \E b \in BPMs : SetBPM(b)

SpecTimer == Init /\ [][NextTimer]_vars

----------------------------------------------------------------------------
(* Claims about the update pass *)

\* the beat timers enabled when the last pass began
BeatsBefore == {n \in DOMAIN upd.before : upd.before[n].type = "beat"}
\* the tick timers enabled when the last pass began
TicksBefore == {n \in DOMAIN upd.before : upd.before[n].type = "tick"}

\* the next fire time of an entry; an entry without one is due from time 0
NextFire(value) == IF value.time = Nil THEN 0 ELSE value.time

\* the recorded passes are updates at 0.0, 0.5 and 1.0 at 60 BPM of a
\* beat timer of frequency 1.0 whose first fire time is 0
Scenario16 ==
    /\ Len(log) >= 3
    /\ <<log[1].now, log[2].now, log[3].now>> = <<0, 5, 10>>
    /\ log[1].bpm = 60
    /\ "b1" \in DOMAIN log[1].before
    /\ log[1].before["b1"].frequency = 1
    /\ NextFire(log[1].before["b1"]) = 0

\* C16: an enabled beat callback is invoked during update(now) exactly when
\* now is at or past its next fire time; at 60 BPM with frequency 1.0 and
\* offset 0 it fires on update(0.0), not on update(0.5), and again on
\* update(1.0).
C16_BeatFiresWhenDue ==
    /\ updates > 0 =>
           \A n \in BeatsBefore :
               upd.fired[n] >= 1 <=> upd.now >= NextFire(upd.before[n])
    /\ Scenario16 =>
           <<log[1].fired["b1"], log[2].fired["b1"], log[3].fired["b1"]>>
               = <<1, 0, 1>>

\* C16 witness: the three updates of the scenario
C16_Witness ==
    /\ Scenario16
    /\ Len(log) = 3
    /\ count["b1"] = 2
    /\ upd.now = 10

\* C16 witness of a beat timer that is not yet due and one that is overdue
C16_WitnessNotDue ==
    /\ updates > 0
    /\ \E n \in BeatsBefore : upd.now < NextFire(upd.before[n])
    /\ \E n \in BeatsBefore :
           upd.now > NextFire(upd.before[n]) /\ upd.fired[n] = 1

\* C17: every enabled tick callback is invoked exactly once per update
\* call, whatever the time elapsed since the previous update (also none)
\* and whatever the tempo.
C17_TickOncePerUpdate ==
    updates > 0 =>
        \A n \in TicksBefore :
            /\ upd.fired[n] = 1
            /\ count[n] = upd.cbefore[n] + 1

\* C17 witness: a second update with the time of the first, at 120 BPM
C17_Witness ==
    /\ Len(log) = 2
    /\ log[1].now = log[2].now
    /\ upd.bpm = 120
    /\ "t1" \in TicksBefore
    /\ upd.fired["t1"] = 1
    /\ count["t1"] = 2

\* the beat timer n fired in the recorded passes i and j
FiredInBoth(n, i, j) ==
    /\ n \in DOMAIN log[i].before
    /\ log[i].before[n].type = "beat"
    /\ log[i].fired[n] >= 1
    /\ log[j].fired[n] >= 1

\* C18: a beat callback is invoked at most once per update call; when the
\* update comes several periods late the missed periods are not made up,
\* neither in that call (the pass leaves the timer due only after now) nor
\* in later calls (two fires are at least one period apart).
C18_NoBackfill ==
    /\ updates > 0 =>
           \A n \in BeatsBefore :
               /\ upd.fired[n] <= 1
               /\ count[n] - upd.cbefore[n] <= 1
               /\ (upd.fired[n] = 1 /\ n \in DOMAIN upd.after) =>
                      NextFire(upd.after[n]) > upd.now
    /\ \A i, j \in DOMAIN log : \A n \in TimerNames :
           (i < j /\ FiredInBoth(n, i, j)) =>
               log[j].now - log[i].now >=
                   Period(log[i].bpm, log[i].before[n].frequency)

\* C18 witness: update(3.0) finds a timer due since 0.0 at 60 BPM, fires it
\* once, and a second update(3.0) does not fire it
C18_Witness ==
    /\ Len(log) = 2
    /\ log[1].now = 30
    /\ log[1].bpm = 60
    /\ "b1" \in DOMAIN log[1].before
    /\ NextFire(log[1].before["b1"]) = 0
    /\ log[1].fired["b1"] = 1
    /\ log[2].now = 30
    /\ log[2].fired["b1"] = 0
    /\ count["b1"] = 1

\* the beat timers the last pass fired and left enabled
FiredBeats == {n \in BeatsBefore : upd.fired[n] = 1 /\ n \in DOMAIN upd.after}

\* C19 as stated: when a beat callback fires during update(now), its next
\* fire time advances by exactly one beat period, (60 / BPM) x frequency,
\* from its previous next fire time, also when now is later than that time.
C19_AdvancesFromFireTime ==
    updates > 0 =>
        \A n \in FiredBeats :
            NextFire(upd.after[n]) =
                NextFire(upd.before[n])
                    + Period(upd.bpm, upd.before[n].frequency)

\* C19 amended: when a beat callback fires during update(now), its next
\* fire time becomes now plus one beat period, (60 / BPM) x frequency; that
\* is one period after its previous next fire time only when now is that
\* fire time.
C19_AdvancesFromNow ==
    updates > 0 =>
        \A n \in FiredBeats :
            /\ NextFire(upd.after[n]) =
                   upd.now + Period(upd.bpm, upd.before[n].frequency)
            /\ NextFire(upd.after[n]) =
                   NextFire(upd.before[n])
                       + Period(upd.bpm, upd.before[n].frequency)
               <=> upd.now = NextFire(upd.before[n])

\* C19 witness: update(1.9) at 120 BPM fires a timer that was due at 1.0
C19_Witness ==
    /\ updates > 0
    /\ upd.now = 19
    /\ upd.bpm = 120
    /\ "b2" \in FiredBeats
    /\ NextFire(upd.before["b2"]) = 10
    /\ NextFire(upd.after["b2"]) = 29

\* the timers whose callback disabled them during the last pass
SelfDisabled == DOMAIN upd.before \ DOMAIN upd.after

\* the timer was due in the last pass: a tick timer, or a beat timer at or
\* past its fire time
Due(n) ==
    \/ upd.before[n].type = "tick"
    \/ upd.now >= NextFire(upd.before[n])

\* C20: a tick or beat callback that disables its timer inside its own
\* invocation does not abort or corrupt the pass: every entry the pass
\* began with is still visited, each due one invoked once and no other; and
\* a timer that disabled itself is not invoked by a later update until it
\* is enabled again.
C20_SelfDisable ==
    updates > 0 =>
        /\ upd.visited = DOMAIN upd.before
        /\ \A n \in DOMAIN upd.before :
               upd.fired[n] = IF Due(n) THEN 1 ELSE 0
        /\ \A n \in TimerNames \ DOMAIN upd.before : upd.fired[n] = 0
        /\ \A n \in SelfDisabled : upd.fired[n] = 1
        /\ \A n \in upd.off : upd.fired[n] = 0 /\ n \notin upd.visited
        /\ off \cap DOMAIN callbacks = {}

\* C20 witness: the tick callback is visited first and disables its timer,
\* and the beat timer after it in the pass is still fired
C20_Witness ==
    /\ updates > 0
    /\ upd.order = <<"t1", "b1">>
    /\ SelfDisabled = {"t1"}
    /\ upd.fired["t1"] = 1
    /\ upd.fired["b1"] = 1

\* C20 witness of a later pass: the tick timer disabled itself earlier and
\* is left alone while the beat callback disables its own timer
C20_WitnessLater ==
    /\ updates > 0
    /\ upd.off = {"t1"}
    /\ count["t1"] = 2
    /\ upd.fired["t1"] = 0
    /\ SelfDisabled = {"b2"}
    /\ off = {"t1", "b2"}

----------------------------------------------------------------------------
(* Runner::run, statement by statement, and the thread run_fundsp spawns *)

\* Runner.command_modules and Runner.polling_modules
CommandModules == <<"audio">>
PollingModules == <<"timer">>
\* the order Runner::new builds the modules in
Constructed == CommandModules \o PollingModules

\* a module call of run, in the loop iteration it was made in, with the
\* value of the EndSong global the call finds (a script's run: leaves)
Ev(ev, module) == [ev |-> ev, module |-> module, iter |-> iter, flag |-> flag]

\* the rest of the program is left alone by a statement of run
RunnerOnly ==
    UNCHANGED <<dsp, session, audio, commands, passes, render, project>>

\* self.lua.scope(|scope| ...: a scope is opened
OpenScope ==
    /\ nreg' = nreg + 1
    /\ live' = nreg + 1

\* the script calls the command global or not: the call reaches the
\* function made in the scope binding names, while scope live is open
Invoking(called, at) ==
    invoked' = IF called
               THEN invoked \cup {[made |-> binding, live |-> live, at |-> at]}
               ELSE invoked

\* module.command, when the script's call reaches it
Commands(called) ==
    IF called THEN <<Ev("command", CommandModules[1])>> ELSE << >>

\* run is called: the initialization scope opens
RunBegin ==
    /\ pc = "start"
    /\ pc' = "init_polling"
    /\ OpenScope
    /\ UNCHANGED <<flag, iter, binding, rt, rtrace, invoked, timer>>
    /\ RunnerOnly

\* module.init for the polling modules
InitPolling ==
    /\ pc = "init_polling"
    /\ pc' = "init_command"
    /\ rtrace' = Append(rtrace, Ev("init", PollingModules[1]))
    /\ UNCHANGED <<flag, iter, binding, live, nreg, rt, invoked, timer>>
    /\ RunnerOnly

\* initialization read as leaving the binding of the entry point to the
\* loop
InitCommand_unbound ==
    /\ pc = "init_command"
    /\ \E device \in BOOLEAN :
          /\ pc' = IF device THEN "post_init" ELSE "panic"
          /\ rt' = IF device THEN "spawned" ELSE rt
    /\ rtrace' = Append(rtrace, Ev("init", CommandModules[1]))
    /\ UNCHANGED <<flag, iter, binding, live, nreg, invoked, timer>>
    /\ RunnerOnly

\* module.init for the command module: AudioModule::init finds the output
\* device and spawns the render thread, or panics without a device
InitCommand ==
    /\ pc = "init_command"
    /\ \E device \in BOOLEAN :
          /\ pc' = IF device THEN "bind" ELSE "panic"
          /\ rt' = IF device THEN "spawned" ELSE rt
    /\ rtrace' = Append(rtrace, Ev("init", CommandModules[1]))
    /\ UNCHANGED <<flag, iter, binding, live, nreg, invoked, timer>>
    /\ RunnerOnly

\* globals().set(module.get_command_name(), scope.create_function_mut(..))
Bind ==
    /\ pc = "bind"
    /\ pc' = "post_init"
    /\ binding' = live
    /\ rtrace' = Append(rtrace, Ev("bind", CommandModules[1]))
    /\ UNCHANGED <<flag, iter, live, nreg, rt, invoked, timer>>
    /\ RunnerOnly

\* lua.load(post_init_program).exec()
PostInit ==
    /\ pc = "post_init"
    /\ pc' = "user"
    /\ \E called \in BOOLEAN :
          /\ Invoking(called, "post_init")
          /\ rtrace' = rtrace \o Commands(called)
                               \o <<Ev("post_init", CommandModules[1])>>
    /\ UNCHANGED <<flag, iter, binding, live, nreg, rt, timer>>
    /\ RunnerOnly

\* the timers the user program enables, each from time zero
EnableAll(en) ==
    [n \in en |->
        Enable(<< >>, n, IF TimerDefs[n].type = "tick" THEN Nil
                         ELSE TimerDefs[n].offset)[n]]

\* the sets of timers a user program enables
Programs == {{}, {"t1"}, {"t1", "b1"}}

\* the elapsed times a loop iteration may read, in tenths of a second
RunTimes == {0, 10}

\* the values a script may leave in the EndSong global
Flags == {"absent", "false", "true"}

\* lua.load(self.project.get_program()).exec(): the user program runs once,
\* may set EndSong, enable timers and call the command global; an error in
\* it panics; the initialization scope ends after it
User ==
    /\ pc = "user"
    /\ \E error \in BOOLEAN : pc' = IF error THEN "panic" ELSE "loop"
    /\ flag' \in Flags
    /\ \E en \in Programs : callbacks' = EnableAll(en)
    /\ \E called \in BOOLEAN :
          /\ Invoking(called, "user")
          /\ rtrace' = rtrace \o Commands(called)
                               \o <<[Ev("user", "script") EXCEPT !.flag = flag']>>
    /\ live' = 0
    /\ UNCHANGED <<iter, binding, nreg, rt, bpm, published, count>>
    /\ RunnerOnly

\* loop { let time_passed = ..: a loop iteration begins
LoopTop ==
    /\ pc = "loop"
    /\ iter < MaxIter
    /\ pc' = "update_command"
    /\ iter' = iter + 1
    /\ UNCHANGED <<flag, binding, live, nreg, rt, rtrace, invoked, timer>>
    /\ RunnerOnly

\* module.update for the command module
UpdateCommand ==
    /\ pc = "update_command"
    /\ pc' = "rebind"
    /\ rtrace' = Append(rtrace, Ev("update", CommandModules[1]))
    /\ UNCHANGED <<flag, iter, binding, live, nreg, rt, invoked, timer>>
    /\ RunnerOnly

\* the loop's scope read as leaving the command global as it is
Rebind_keeps ==
    /\ pc = "rebind"
    /\ pc' = "update_polling"
    /\ OpenScope
    /\ rtrace' = Append(rtrace, Ev("bind", CommandModules[1]))
    /\ UNCHANGED <<flag, iter, binding, rt, invoked, timer>>
    /\ RunnerOnly

\* the loop's scope opens and the command global is set to a function
\* made in it
Rebind ==
    /\ pc = "rebind"
    /\ pc' = "update_polling"
    /\ OpenScope
    /\ binding' = nreg + 1
    /\ rtrace' = Append(rtrace, Ev("bind", CommandModules[1]))
    /\ UNCHANGED <<flag, iter, rt, invoked, timer>>
    /\ RunnerOnly

\* module.update for the polling module, inside the loop's scope: the
\* callbacks that fire may set EndSong and call the command global; the
\* scope ends after it
UpdatePolling ==
    /\ pc = "update_polling"
    /\ pc' = "check"
    /\ \E time \in RunTimes : Update(time)
    /\ \E set \in Flags, called \in BOOLEAN :
          LET fires == \E n \in TimerNames : upd'.fired[n] > 0
          IN  /\ flag' = IF fires THEN set ELSE flag
              /\ Invoking(fires /\ called, "callback")
              /\ rtrace' = rtrace \o Commands(fires /\ called)
                                   \o <<[Ev("update", PollingModules[1])
                                           EXCEPT !.flag = flag']>>
    /\ live' = 0
    /\ UNCHANGED <<iter, binding, nreg, rt, render, project>>

\* the read of EndSong read as defaulting to true
end_song_default == flag # "false"

\* globals.get("EndSong").unwrap_or(false)
end_song == flag = "true"

\* the check read as made from the second iteration on
Check_second ==
    /\ pc = "check"
    /\ pc' = IF end_song /\ iter > 1 THEN "end_polling" ELSE "sleep"
    /\ rtrace' = Append(rtrace, Ev("check", "runner"))
    /\ UNCHANGED <<flag, iter, binding, live, nreg, rt, invoked, timer>>
    /\ RunnerOnly

\* if end_song { break; }
Check ==
    /\ pc = "check"
    /\ pc' = IF end_song THEN "end_polling" ELSE "sleep"
    /\ rtrace' = Append(rtrace, Ev("check", "runner"))
    /\ UNCHANGED <<flag, iter, binding, live, nreg, rt, invoked, timer>>
    /\ RunnerOnly

\* std::thread::sleep(1 ms) at the end of an iteration
Sleep ==
    /\ pc = "sleep"
    /\ pc' = "loop"
    /\ UNCHANGED <<flag, iter, binding, live, nreg, rt, rtrace, invoked, timer>>
    /\ RunnerOnly

\* the end loops read as returning after the polling modules
EndPolling_last ==
    /\ pc = "end_polling"
    /\ pc' = "done"
    /\ rtrace' = Append(rtrace, Ev("end", PollingModules[1]))
    /\ UNCHANGED <<flag, iter, binding, live, nreg, rt, invoked, timer>>
    /\ RunnerOnly

\* module.end for the polling module, after the loop
EndPolling ==
    /\ pc = "end_polling"
    /\ pc' = "end_command"
    /\ rtrace' = Append(rtrace, Ev("end", PollingModules[1]))
    /\ UNCHANGED <<flag, iter, binding, live, nreg, rt, invoked, timer>>
    /\ RunnerOnly

\* module.end for the command module read as waiting for the render
\* thread to finish
EndCommand_joins ==
    /\ pc = "end_command"
    /\ rt \in {"none", "failed"}
    /\ pc' = "done"
    /\ rtrace' = Append(rtrace, Ev("end", CommandModules[1]))
    /\ UNCHANGED <<flag, iter, binding, live, nreg, rt, invoked, timer>>
    /\ RunnerOnly

\* module.end for the command module; run returns
EndCommand ==
    /\ pc = "end_command"
    /\ pc' = "done"
    /\ rtrace' = Append(rtrace, Ev("end", CommandModules[1]))
    /\ UNCHANGED <<flag, iter, binding, live, nreg, rt, invoked, timer>>
    /\ RunnerOnly

\* the thread of run_fundsp leaves the rest of the program alone
RenderOnly ==
    /\ UNCHANGED <<pc, flag, iter, binding, live, nreg, rtrace, invoked>>
    /\ UNCHANGED <<dsp, session, audio, commands, timer, passes, render,
                   project>>

\* the spawned thread builds the output stream and plays it; either unwrap
\* may panic in the thread
RtStart ==
    /\ rt = "spawned"
    /\ \E ok \in BOOLEAN : rt' = IF ok THEN "awake" ELSE "failed"
    /\ RenderOnly

\* loop { std::thread::sleep(1 ms) } in the spawned thread
RtTurn ==
    /\ rt \in {"awake", "asleep"}
    /\ rt' = IF rt = "awake" THEN "asleep" ELSE "awake"
    /\ RenderOnly

\* the statements of Runner::run
Control ==
    \/ RunBegin
    \/ InitPolling
    \/ InitCommand
    \/ Bind
    \/ PostInit
    \/ User
    \/ LoopTop
    \/ UpdateCommand
    \/ Rebind
    \/ UpdatePolling
    \/ Check
    \/ Sleep
    \/ EndPolling
    \/ EndCommand

\* the statements of the thread run_fundsp spawns
RenderThread == RtStart \/ RtTurn

NextRun == Control \/ RenderThread

SpecRun == Init /\ [][NextRun]_vars

\* the control thread is an operating-system thread of its own: a
\* statement of run that can execute does execute
SpecRunFair == SpecRun /\ WF_vars(Control)

----------------------------------------------------------------------------
(* Claims about the runner *)

\* the calls of one kind run has made, in order
Calls(ev) == SelectSeq(rtrace, LAMBDA e : e.ev = ev)

\* the modules a sequence of calls went to, in order
Modules(evs) == [i \in DOMAIN evs |-> evs[i].module]

\* the user program has run and left EndSong true, and no callback has
\* changed it since
StopAtStart ==
    /\ \E i \in DOMAIN rtrace :
          rtrace[i].ev = "user" /\ rtrace[i].flag = "true"
    /\ \A i \in DOMAIN rtrace :
          rtrace[i].ev = "update" => rtrace[i].flag = "true"
    /\ pc # "panic"

\* no module has had end called twice
EndOnce ==
    \A i, j \in DOMAIN Calls("end") :
        Calls("end")[i].module = Calls("end")[j].module => i = j

State(at) ==
    CASE at = "start" -> 0
      [] at \in {"init_polling", "init_command", "bind", "post_init", "user"}
            -> 1
      [] at \in {"loop", "update_command", "rebind", "update_polling",
                 "check", "sleep"} -> 2
      [] at \in {"end_polling", "end_command"} -> 3
      [] at = "done" -> 4
      [] OTHER -> 5

\* the state of the runner a recorded call was made in
StateOf(e) ==
    CASE e.ev \in {"init", "post_init", "user"} -> 1
      [] e.ev \in {"bind", "command"} /\ e.iter = 0 -> 1
      [] e.ev = "end" -> 3
      [] OTHER -> 2

\* the places of the calls of one kind on one module
Places(ev, module) ==
    {i \in DOMAIN rtrace : rtrace[i].ev = ev /\ rtrace[i].module = module}

\* C22: the recorded calls go through Initializing, Running and Ending in
\* that order and the runner is in no earlier state than its last call; a
\* runner past a state has made that state's calls; every module's init
\* happens once and before any update or command call on it; the entry
\* point is bound before the post-init fragment runs; the user script runs
\* once, after every first binding and post-init fragment; no update or
\* command reaches a module after its end
C22_StateOrder ==
    /\ \A i, j \in DOMAIN rtrace :
          i < j => StateOf(rtrace[i]) <= StateOf(rtrace[j])
    /\ \A i \in DOMAIN rtrace : pc # "panic" => StateOf(rtrace[i]) <= State(pc)
    /\ rtrace # << >> => State(pc) > 0
    /\ State(pc) \in 2 .. 4 => Cardinality(Places("user", "script")) = 1
    /\ State(pc) \in 3 .. 4 => Places("check", "runner") # {}
    /\ State(pc) = 4 => \A m \in {"audio", "timer"} : Places("end", m) # {}
    /\ \A m \in {"audio", "timer"} :
          /\ Cardinality(Places("init", m)) <= 1
          /\ \A j \in Places("update", m) \cup Places("command", m) :
                /\ \E i \in Places("init", m) : i < j
                /\ \A k \in Places("end", m) : j < k
    /\ \A j \in Places("post_init", "audio") :
          \E i \in Places("bind", "audio") : i < j
    /\ Cardinality(Places("user", "script")) <= 1
    /\ \A j \in Places("user", "script") :
          /\ \E i \in Places("post_init", "audio") : i < j
          /\ \A i \in Places("bind", "audio") : rtrace[i].iter = 0 => i < j
          /\ \A i \in Places("post_init", "audio") : i < j

\* a terminated run whose scripts and callbacks called the entry point
C22_Witness ==
    /\ pc = "done"
    /\ \E i \in Places("command", "audio") : rtrace[i].iter = 0
    /\ \E i \in Places("command", "audio") : rtrace[i].iter > 0

\* the calls run makes in one loop iteration, in order
IterationOrder ==
    <<<<"update", CommandModules[1]>>, <<"bind", CommandModules[1]>>,
      <<"update", PollingModules[1]>>, <<"check", "runner">>>>

\* the calls run has made in iteration k, in order
IterationCalls(k) ==
    LET evs == SelectSeq(rtrace, LAMBDA e : e.iter = k
                                    /\ e.ev \notin {"command", "end"})
    IN  [i \in DOMAIN evs |-> <<evs[i].ev, evs[i].module>>]

\* the polling update of an iteration has left EndSong true
StopSetAt(i) ==
    /\ rtrace[i].ev = "update"
    /\ rtrace[i].module = PollingModules[1]
    /\ rtrace[i].flag = "true"

\* C23: the calls of every loop iteration are, in order, update of the
\* command module, re-binding of its entry point, update of the polling
\* module and one check of the stop flag, all of them made in an iteration
\* that is over; when the polling update of iteration k leaves the stop flag
\* true, the loop makes no later iteration and no module is updated again
C23_IterationOrder ==
    /\ \A k \in 1 .. iter :
          /\ Len(IterationCalls(k)) <= Len(IterationOrder)
          /\ IterationCalls(k) =
                SubSeq(IterationOrder, 1, Len(IterationCalls(k)))
          /\ (k < iter \/ State(pc) \in 3 .. 4 \/ pc = "sleep")
                => IterationCalls(k) = IterationOrder
    /\ \A i \in DOMAIN rtrace :
          StopSetAt(i) =>
              /\ iter = rtrace[i].iter
              /\ pc \in {"check", "end_polling", "end_command", "done"}
              /\ \A j \in DOMAIN rtrace :
                    j > i => rtrace[j].ev \in {"check", "end"}

\* a callback of the second iteration set the stop flag and the run ended
\* in that iteration
C23_Witness ==
    /\ pc = "done"
    /\ iter = 2
    /\ \E i \in Places("check", "runner") :
          rtrace[i].iter = 1 /\ rtrace[i].flag = "false"
    /\ \E i \in DOMAIN rtrace : StopSetAt(i) /\ rtrace[i].iter = 2

\* a check of the stop flag has found it true
StopObserved ==
    \E i \in Places("check", "runner") : rtrace[i].flag = "true"

\* C24: the runner is in Ending or Terminated, or has called end, only
\* after a check that found the stop flag true; after a check that found
\* it absent or false the runner sleeps and begins the next iteration; and
\* the runner never aborts once it has checked the flag
C24_KeepsRunning ==
    /\ (State(pc) \in 3 .. 4 \/ Calls("end") # << >>) => StopObserved
    /\ \A i \in Places("check", "runner") :
          rtrace[i].flag # "true" /\ i = Len(rtrace)
              => pc \in {"sleep", "loop", "update_command"}
    /\ Places("check", "runner") # {} => pc # "panic"

\* two iterations have checked a flag that is absent and the runner goes on
C24_Witness ==
    /\ iter = 2
    /\ pc = "sleep"
    /\ \A i \in Places("check", "runner") : rtrace[i].flag = "absent"

\* a flag that is present and false keeps the runner running as well
C24_WitnessFalse ==
    /\ iter = 2
    /\ pc = "sleep"
    /\ \A i \in Places("check", "runner") : rtrace[i].flag = "false"

\* the render thread is in its loop
Rendering == rt \in {"awake", "asleep"}

\* the statement of run the control thread is at can execute (the bound on
\* iterations aside)
Runnable == State(pc) \in 1 .. 3 /\ (pc = "loop" => iter < MaxIter)

\* C25: once a check has found the stop flag true the control thread
\* reaches Terminated; no statement of run after the spawn changes the
\* state of the render thread, and every one of them can execute whatever
\* the render thread is doing; a render thread in its loop stays in it and
\* can take its next turn after Terminated
C25_Abandons ==
    /\ StopObserved ~> (pc = "done")
    /\ [][pc' # pc /\ rt # "none" => rt' = rt]_vars
    /\ [](Runnable => ENABLED Control)
    /\ [](Rendering => [](Rendering /\ ENABLED RenderThread))

\* the run has terminated and the render thread is still in its loop
C25_Witness == StopObserved /\ pc = "done" /\ Rendering

\* the statements of run that execute a script or the callbacks
Executes == pc \in {"post_init", "user", "update_polling"}

\* C30: where a post-init fragment, the user script or the callbacks are
\* about to execute, a scope is open and the entry point is bound to the
\* function made in that scope; every call of the entry point made so far
\* reached a function made in the scope that was open at the call, never
\* one made in an earlier scope
C30_LiveBinding ==
    /\ Executes => live # 0 /\ binding = live
    /\ \A v \in invoked : v.live # 0 /\ v.made = v.live

\* the user script called the entry point in the initialization scope and
\* a callback called it in the scope of the second iteration
C30_Witness ==
    /\ \E v \in invoked : v.at = "user" /\ v.made = 1
    /\ \E v \in invoked : v.at = "callback" /\ v.made = 3

----------------------------------------------------------------------------
(* Claims about single commands, continued *)

\* the last command was the synthesis operation op and returned
DspOp(op) ==
    /\ ~aborted
    /\ Len(cmd.arg) >= 2
    /\ cmd.arg[1] = W("dsp")
    /\ cmd.arg[2] = W(op)

\* C28: a net_commit command that returns returns "nil" and leaves the
\* arena (its length and every slot, so every arity), the parameter store,
\* the event queue and the recognized event ids as they were, whether its
\* handle names a slot or not; no arena network has a render backend
C28_CommitFrame ==
    DspOp("net_commit") =>
        /\ cmd.ret = <<W("nil")>>
        /\ Len(nets) = Len(abefore.dsp.nets)
        /\ \A i \in DOMAIN nets :
              /\ nets[i].ins = abefore.dsp.nets[i].ins
              /\ nets[i].outs = abefore.dsp.nets[i].outs
        /\ DspNow = abefore.dsp
        /\ sequencer = abefore.sequencer
        /\ event_map = abefore.event_map
        /\ \A i \in DOMAIN nets : ~has_backend(nets[i])

\* net_commit of a network the session allocated, which has no backend
C28_Witness ==
    /\ DspOp("net_commit")
    /\ cmd.arg[3] = N(7)
    /\ Len(nets) = 8
    /\ DOMAIN shared # {}

\* net_commit of a handle past the arena
C28_WitnessInvalid ==
    /\ DspOp("net_commit")
    /\ cmd.arg[3] = N(9)
    /\ Len(nets) <= 9

----------------------------------------------------------------------------
(* Claims about the update pass, continued *)

\* C29: after update(now) the published time is now, and every callback
\* invoked in the pass was handed now as its argument and read now from
\* the time getter, not the time the previous update published
C29_PublishedFirst ==
    updates > 0 =>
        /\ published = upd.now
        /\ \A i \in DOMAIN upd.seen :
              /\ upd.seen[i].arg = upd.now
              /\ upd.seen[i].read = upd.now

\* a later update, at a later time than the one before, invoked a tick and
\* a beat callback
C29_Witness ==
    /\ updates > 1
    /\ upd.last < upd.now
    /\ \E i, j \in DOMAIN upd.seen :
          /\ TimerDefs[upd.seen[i].name].type = "tick"
          /\ TimerDefs[upd.seen[j].name].type = "beat"
          /\ upd.seen[i].read # upd.last

----------------------------------------------------------------------------
(* Project::create.  A name is a sequence of characters, a path a sequence
   of components, a component a sequence of characters or one fixed name. *)

\* Project::create calls
MaxCreates == 2

\* a letter, a digit, the two characters create allows besides, and two
\* characters of the names test_project_create expects to fail
Chars == {"a", "1", "_", "-", ".", "/"}

\* the names create is called with: the empty name, the names of one
\* character and the names of two
ProjectNames ==
    {<< >>} \cup {<<x>> : x \in Chars} \cup {<<x, y>> : x, y \in Chars}

\* char::is_alphanumeric
is_alphanumeric(x) == x \in {"a", "1"}

DIR_MODULES == <<"modules">>
DIR_SAMPLES == <<"samples">>
FILE_PROGRAM == <<"program.luau">>

\* the directories create is asked to work in: one that exists, one that
\* does not
Parents == {<<<<"tmp">>>>, <<<<"missing">>>>}

\* the step of create at which the file system refuses, if any
Failures == {"none", "dir", "samples", "program"}

\* PathBuf::push of a relative component; an empty one names the same place
push(path, component) ==
    IF component = << >> THEN path ELSE Append(path, component)

\* fs::create_dir: fails when the path exists, when its parent does not,
\* or when the file system refuses
create_dir(d, path, refused) ==
    IF refused \/ path \in d \/ SubSeq(path, 1, Len(path) - 1) \notin d
    THEN [ok |-> FALSE, disk |-> d]
    ELSE [ok |-> TRUE, disk |-> d \cup {path}]

\* the results of create
Err(d, kind, arg) == [disk |-> d, kind |-> kind, arg |-> arg]
Ok(d) == [disk |-> d, kind |-> "Ok", arg |-> << >>]

\* the sanity check of the name read as letting dots through
name_ok_dots(name) ==
    \A i \in DOMAIN name :
        is_alphanumeric(name[i]) \/ name[i] = "_" \/ name[i] = "-"
            \/ name[i] = "."

\* name.chars().all(|x| x.is_alphanumeric() || x == '_' || x == '-')
name_ok(name) ==
    \A i \in DOMAIN name :
        is_alphanumeric(name[i]) \/ name[i] = "_" \/ name[i] = "-"

\* create read as making the project directory before it looks at the name
create_eager(d, path, name, io) ==
    LET dir == create_dir(d, push(path, name), io = "dir")
    IN  IF ~name_ok(name) THEN Err(dir.disk, "BadName", name)
        ELSE IF ~dir.ok THEN Err(d, "BadPath", push(path, name))
        ELSE Ok(dir.disk)

\* Project::create
create(d, path, name, io) ==
    LET project_path == push(path, name)
        module_path == push(project_path, DIR_MODULES)
        samples_path == push(project_path, DIR_SAMPLES)
        program_path == push(project_path, FILE_PROGRAM)
        dir == create_dir(d, project_path, io = "dir")
        modules == create_dir(dir.disk, module_path, io = "modules")
        samples == create_dir(modules.disk, samples_path, io = "samples")
    IN  IF ~name_ok(name) THEN Err(d, "BadName", name)
        ELSE IF path \notin d THEN Err(d, "BadPath", path)
        ELSE IF ~dir.ok THEN Err(dir.disk, "BadPath", project_path)
        ELSE IF ~modules.ok THEN Err(modules.disk, "BadPath", module_path)
        ELSE IF ~samples.ok THEN Err(samples.disk, "BadPath", samples_path)
        ELSE IF io = "program" THEN Err(samples.disk, "BadTemplate", << >>)
        ELSE Ok(samples.disk \cup {program_path})

\* one call of Project::create
Create(path, name, io) ==
    /\ creates < MaxCreates
    /\ LET r == create(disk, path, name, io)
       IN  /\ disk' = r.disk
           /\ outcome' = [name |-> name, path |-> path, kind |-> r.kind,
                          arg |-> r.arg, before |-> disk]
    /\ creates' = creates + 1
    /\ UNCHANGED <<dsp, session, audio, commands, timer, passes, runner,
                   render>>

NextProject ==
    \E path \in Parents, name \in ProjectNames, io \in Failures :
        Create(path, name, io)

SpecProject == Init /\ [][NextProject]_vars

\* a name made solely of alphanumeric characters, '_' and '-'
GoodName(name) == {name[i] : i \in DOMAIN name} \subseteq {"a", "1", "_", "-"}

\* C27: a Project::create that succeeded was given a name made solely of
\* alphanumeric characters, '_' and '-'; for any other name the result is
\* the error value BadName carrying the name, and the file system is as it
\* was before the call; every call returns Ok or one of the error values
\* of ProjectError
C27_BadName ==
    creates > 0 =>
        /\ outcome.kind = "Ok" => GoodName(outcome.name)
        /\ ~GoodName(outcome.name) =>
              /\ outcome.kind = "BadName"
              /\ outcome.arg = outcome.name
              /\ disk = outcome.before
        /\ outcome.kind \in {"Ok", "BadName", "BadPath", "BadTemplate"}
        /\ ~aborted

\* a name with a dot is refused after another project has been created
C27_Witness ==
    /\ creates = 2
    /\ outcome.name = <<"a", ".">>
    /\ outcome.path = <<<<"tmp">>>>
    /\ outcome.kind = "BadName"
    /\ <<<<"tmp">>, <<"a", "1">>, FILE_PROGRAM>> \in disk

\* a project is created under a name with '-' and '_'
C27_WitnessCreated ==
    /\ outcome.name = <<"-", "_">>
    /\ outcome.kind = "Ok"
    /\ <<<<"tmp">>, <<"-", "_">>, DIR_SAMPLES>> \in disk

----------------------------------------------------------------------------
(* The parameter cells, written by the control thread and read by the
   networks the render thread owns *)

\* the commands of a session that plays networks reading a parameter
RenderStrings ==
    {<<W("dsp"), W("shared_set"), W("f"), N(1)>>,
     <<W("dsp"), W("shared_set"), W("f"), F(2)>>,
     <<W("dsp"), W("net_clone"), N(7)>>,
     <<W("dsp"), W("net_bus"), N(7), N(7)>>,
     <<W("dsp"), W("net_product"), N(3), N(7)>>,
     <<W("audio"), W("play"), N(7), N(1)>>,
     <<W("audio"), W("play"), N(8), N(1)>>,
     <<W("audio"), W("play"), N(3), N(1)>>}

\* the last command was a shared_set of the parameter name that returned
SetOf(c, name) ==
    /\ Len(c.arg) = 4
    /\ c.arg[1] = W("dsp")
    /\ c.arg[2] = W("shared_set")
    /\ Text(c.arg[3]) = name

\* Var::tick in a network: the value of the cell the unit holds
var_read(sh, name) == sh[name]

\* one command of the control thread; the values the cells are given are
\* recorded in order
Control26 ==
    \E s \in RenderStrings :
        /\ Send(s)
        /\ written' =
             [n \in DOMAIN shared' |->
                 IF n \notin DOMAIN written THEN <<shared'[n]>>
                 ELSE IF SetOf(cmd', n) /\ ~aborted'
                      THEN Append(written[n], shared'[n])
                      ELSE written[n]]
        /\ UNCHANGED <<heard, project>>

\* the render thread computes a sample of one event's network: its var
\* units read their cells
Render ==
    \E i \in DOMAIN sequencer :
        /\ heard' = Insert(heard, i,
                        [n \in sequencer[i].unit.refs |->
                            [value |-> var_read(shared, n),
                             writes |-> Len(written[n])]])
        /\ UNCHANGED <<dsp, session, audio, commands, timer, passes, runner,
                       written, project>>

NextRender == Control26 \/ Render

SpecRender == Init /\ [][NextRender]_vars

\* the slot a returned command allocated last
NewSlot == nets[Len(nets)]

\* the operand of the last command at token i, as the arena had it
Operand(i) == abefore.dsp.nets[parse_usize(cmd.arg[i]) + 1]

\* the networks that hold the cell of name: arena slots and the copies the
\* event queue handed to the render thread
Holders(name) ==
    {nets[i] : i \in {i \in DOMAIN nets : name \in nets[i].refs}}
    \cup {sequencer[i].unit :
             i \in {i \in DOMAIN sequencer : name \in sequencer[i].unit.refs}}

\* C26: a copy made by net_clone, by a combinator or by play holds the
\* cells its source holds; shared_set(name, v) on an existing name leaves
\* the arena, the handle of the name and the event queue as they were, and
\* every network that holds the cell, in the arena or in the event queue,
\* reads v; whenever the render thread reads a cell for an event it gets the
\* value most recently written at that moment, which is the initial value
\* or one written before
C26_SharedCells ==
    /\ (cmds > 0 /\ ~aborted /\ cmd.ret # <<W("nil")>>) =>
          /\ DspOp("net_clone") => NewSlot.refs = Operand(3).refs
          /\ (DspOp("net_bus") \/ DspOp("net_product")) =>
                NewSlot.refs = Operand(3).refs \cup Operand(4).refs
          /\ AudioOp("play") =>
                sequencer[Len(sequencer)].unit.refs = Operand(3).refs
    /\ \A name \in DOMAIN abefore.dsp.shared :
          (cmds > 0 /\ ~aborted /\ SetOf(cmd, name)) =>
              /\ nets = abefore.dsp.nets
              /\ shared_to_net = abefore.dsp.shared_to_net
              /\ sequencer = abefore.sequencer
              /\ \A unit \in Holders(name) :
                    var_read(shared, name) = parse_float(cmd.arg[4])
    /\ \A i \in DOMAIN heard :
          /\ DOMAIN heard[i] = sequencer[i].unit.refs
          /\ \A n \in DOMAIN heard[i] :
                /\ heard[i][n].writes \in DOMAIN written[n]
                /\ heard[i][n].value = written[n][heard[i][n].writes]

\* a played copy of the parameter's network reads 2.5 after the parameter,
\* created as 1, was set to 2.5 while the copy was in the event queue
C26_Witness ==
    /\ cmds = 3
    /\ SetOf(cmd, "f")
    /\ written["f"] = <<2, 5>>
    /\ Len(sequencer) = 1
    /\ sequencer[1].unit.refs = {"f"}
    /\ 1 \in DOMAIN heard
    /\ heard[1] = [n \in {"f"} |-> [value |-> 5, writes |-> 2]]

\* the parameter is set after a combinator made a copy of its network
C26_WitnessCombinator ==
    /\ SetOf(cmd, "f")
    /\ Len(nets) = 9
    /\ nets[9].kind # "var"
    /\ nets[9] \in Holders("f")
    /\ shared["f"] # abefore.dsp.shared["f"]

----------------------------------------------------------------------------
(* Claims about the parameter store and the arena, continued *)

\* the parameter store and the name-to-handle map hold the same names, and
\* every mapped handle names a slot of the arena
StoreAgrees ==
    /\ DOMAIN shared = DOMAIN shared_to_net
    /\ \A name \in DOMAIN shared_to_net :
          net_exists(nets, shared_to_net[name])

\* two different names never map to the same handle
HandlesApart ==
    \A n, m \in DOMAIN shared_to_net :
        shared_to_net[n] = shared_to_net[m] => n = m

\* every handle mapped in the fields d names a network without inputs
ZeroInputIn(d) ==
    \A name \in DOMAIN d.shared_to_net :
        net_exists(d.nets, d.shared_to_net[name])
            => Slot(d.nets, d.shared_to_net[name]).ins = 0

ZeroInput == ZeroInputIn(Fields(nets, shared, shared_to_net))

\* C35 as stated: the parameter store and the name-to-handle map have the
\* same names, every mapped handle is a valid handle of a zero-input
\* network, and no two names share a handle
C35_StoreInvariant == StoreAgrees /\ HandlesApart /\ ZeroInput

\* C35 amended: the parameter store and the name-to-handle map have the
\* same names, every mapped handle is a valid handle, and no two names
\* share a handle; the mapped slots hold zero-input networks for as long as
\* no net_replace is called: every other call keeps them so
C35_StoreExceptReplace ==
    /\ StoreAgrees
    /\ HandlesApart
    /\ (last.op # "net_replace" /\ ZeroInputIn(before)) => ZeroInput

\* two parameters exist, and a call other than net_replace followed
C35_Witness ==
    /\ Cardinality(DOMAIN shared_to_net) = 2
    /\ last.op \in {"net_chain", "net_bus"}
    /\ last.ret # Nil
    /\ ZeroInput

\* net_replace has put a network with inputs in a parameter's slot
C35_WitnessReplaced ==
    /\ last.op = "net_replace"
    /\ ZeroInputIn(before)
    /\ ~ZeroInput

----------------------------------------------------------------------------
(* Claims about the arena under the command grammar *)

\* the arena before the last command is a prefix of the arena after it
PrefixKept ==
    /\ Len(nets) >= Len(abefore.dsp.nets)
    /\ SubSeq(nets, 1, Len(abefore.dsp.nets)) = abefore.dsp.nets

\* C36: a dispatched command overwrites no slot and leaves the length of
\* the arena unchanged or one greater, so slots 0-6 hold the seven built-in
\* oscillators and every later slot the network it was created with
C36_NoOverwrite ==
    /\ PrefixKept
    /\ Len(nets) \in {Len(abefore.dsp.nets), Len(abefore.dsp.nets) + 1}
    /\ SubSeq(nets, 1, Len(get_defaults)) = get_defaults

\* the third command created a network after two earlier ones had
C36_Witness ==
    /\ cmds = 3
    /\ Len(nets) = Len(get_defaults) + 3
    /\ Len(abefore.dsp.nets) = Len(get_defaults) + 2
    /\ cmd.arg[1] = W("dsp")

----------------------------------------------------------------------------
(* Claims about the recognized event ids *)

\* the ids the module recognizes
Recognized(map) == DOMAIN map

\* C37: the set of recognized event ids only grows: a command removes none,
\* every id play has returned stays recognized, and stop of such an id
\* returns true, repeated or not, and leaves the set as it was
C37_IdsOnlyGrow ==
    /\ Recognized(abefore.event_map) \subseteq Recognized(event_map)
    /\ \A id \in played : Text(id) \in Recognized(event_map)
    /\ (AudioOp("stop") /\ cmd.arg[3] \in played) =>
           /\ cmd.ret = <<W("true")>>
           /\ Recognized(event_map) = Recognized(abefore.event_map)

\* the same id is stopped a second time and stop answers true again
C37_Witness ==
    /\ cmds = 3
    /\ played = {E(0)}
    /\ AudioOp("stop")
    /\ cmd.arg[3] = E(0)
    /\ abefore.sequencer[1].edited
    /\ cmd.ret = <<W("true")>>
    /\ Recognized(event_map) = {Text(E(0))}

\* two ids are recognized after the second play
C37_WitnessTwo ==
    /\ AudioOp("play")
    /\ played = {E(0), E(1)}
    /\ Cardinality(Recognized(event_map)) = 2

----------------------------------------------------------------------------
(* Claims about the arity of mixed networks *)

\* the last call was a mixing combinator on two valid handles
Mixed(op) ==
    /\ last.op = op
    /\ net_exists(before.nets, last.a)
    /\ net_exists(before.nets, last.b)

\* the network at handle h is accepted as the right operand of net_product
\* by every left operand with as many outputs
RightOperand(h) ==
    \A a \in 0 .. Len(nets) - 1 :
        can_product(Slot(nets, a), Slot(nets, h))
            => net_product(nets, a, h).ret # Nil

\* the network at handle h is refused as the right operand of net_product
Refused(h) ==
    \A a \in 0 .. Len(nets) - 1 : net_product(nets, a, h).ret = Nil

C38_WitnessInputs ==
    /\ Mixed("net_bus")
    /\ last.ret # Nil
    /\ Slot(nets, last.a).kind = "var"
    /\ Slot(nets, last.b).ins = 1
    /\ Slot(nets, last.ret).ins = 1
    /\ Refused(last.ret)

\* the bused network was handed to net_product as right operand
C38_WitnessRefused ==
    /\ Mixed("net_product")
    /\ Slot(nets, last.b).kind = "sum"
    /\ Slot(nets, last.b).ins = 1
    /\ last.ret = Nil

----------------------------------------------------------------------------
(* Claims about the tempo *)

\* a step that changes the tempo leaves every scheduled fire time and every
\* count as it was
TempoFrame == bpm' # bpm => (callbacks' = callbacks /\ count' = count)

\* an update pass fires a beat callback by its scheduled time alone, and
\* the period that follows is the one of the tempo the pass finds; a tick
\* callback fires whatever the tempo
TempoAtFire ==
    updates' = updates + 1 =>
        \A n \in DOMAIN callbacks :
            IF callbacks[n].type = "beat"
            THEN IF upd'.now >= NextFire(callbacks[n])
                 THEN /\ upd'.fired[n] = 1
                      /\ n \in DOMAIN callbacks' =>
                             callbacks'[n].time =
                                 upd'.now + Period(bpm, callbacks[n].frequency)
                 ELSE /\ upd'.fired[n] = 0
                      /\ callbacks'[n] = callbacks[n]
            ELSE upd'.fired[n] = 1

\* C39: changing the tempo between updates does not move the next fire
\* time a beat callback already has; the new tempo enters the period
\* computed when the callback next fires, and tick callbacks fire on every
\* update whatever the tempo
C39_TempoAtNextFire == [][TempoFrame /\ TempoAtFire]_vars

\* b1 fired at 0.0 at 60 BPM, the tempo was doubled, and the second pass
\* fired it at 1.0, the time it was scheduled for, with the next fire half
\* a second later
C39_Witness ==
    /\ updates = 2
    /\ calls = 2
    /\ bpm = 120
    /\ upd.bpm = 120
    /\ upd.now = 10
    /\ count["b1"] = 2
    /\ NextFire(upd.before["b1"]) = 10
    /\ NextFire(upd.after["b1"]) = 15

\* at the doubled tempo b1, scheduled for 1.0, is not fired at 0.5
C39_WitnessNotMoved ==
    /\ updates = 2
    /\ calls = 2
    /\ upd.bpm = 120
    /\ upd.now = 5
    /\ count["b1"] = 1
    /\ upd.fired["b1"] = 0
    /\ NextFire(upd.before["b1"]) = 10

----------------------------------------------------------------------------
(* The tempo setter and getter of the script *)

\* the values a script hands to SetBPM: tempos, zero, a tempo below zero,
\* math.huge, and a string that reads as a number
BpmInputs ==
    {LuaNumber(v) : v \in BPMs \cup {0, 0 - 60, Infinity}} \cup {LuaString(1)}

\* mutant: the value is stored before zero is refused
set_bpm_stores(cur, x) ==
    IF x.type # "number" THEN [bpm |-> cur, err |-> TRUE]
    ELSE [bpm |-> x.v, err |-> x.v = 0]

\* SetBPM(x): zero and a value that is no number are an error and leave
\* the tempo as it was; any other number is stored
set_bpm(cur, x) ==
    IF x.type # "number" \/ x.v = 0
    THEN [bpm |-> cur, err |-> TRUE]
    ELSE [bpm |-> x.v, err |-> FALSE]

\* GetBPM(): the stored tempo
get_bpm(cur) == cur

\* SetBPM(x) in the script, with whatever x the script hands over
TrySetBPM(x) ==
    /\ calls < MaxCalls
    /\ LET r == set_bpm(bpm, x)
       IN  /\ bpm' = r.bpm
           /\ tempo' = [op |-> "set", arg |-> x, err |-> r.err,
                        got |-> tempo.got, held |-> bpm,
                        accepted |-> IF r.err THEN tempo.accepted ELSE x.v]
    /\ calls' = calls + 1
    /\ steady' = (steady /\ updates = 0)
    /\ log' = << >>
    /\ UNCHANGED <<callbacks, published, count, upd, off, updates, tried>>
    /\ UNCHANGED <<dsp, session, audio, commands, runner, render, project>>

\* GetBPM() in the script
AskBPM ==
    /\ calls < MaxCalls
    /\ tempo' = [tempo EXCEPT !.op = "get", !.got = get_bpm(bpm),
                              !.held = bpm, !.err = FALSE]
    /\ calls' = calls + 1
    /\ steady' = (steady /\ updates = 0)
    /\ log' = << >>
    /\ UNCHANGED <<callbacks, bpm, published, count, upd, off, updates,
                   tried>>
    /\ UNCHANGED <<dsp, session, audio, commands, runner, render, project>>

\* the times update is called with in a session about the tempo
TempoTimes == {0, 5, 10}
\* the timers of such a session: a tick timer and a beat timer
TempoTimers == {"t1", "b1"}

NextTempo ==
    \/ \E x \in BpmInputs : TrySetBPM(x)
    \/ AskBPM
    \/ \E name \in TempoTimers, delay \in BOOLEAN : ScriptEnable(name, delay)
    \/ \E time \in TempoTimes :
          Update(time) /\ UNCHANGED <<runner, render, project>>

SpecTempo == Init /\ [][NextTempo]_vars

\* the last SetBPM call was refused exactly for zero and for a value that
\* is no number, a refused call left the tempo alone and an accepted one
\* stored its value
SetterRejects ==
    tempo.op = "set" =>
        /\ tempo.err <=> (tempo.arg.type # "number" \/ tempo.arg.v = 0)
        /\ tempo.err => bpm = tempo.held
        /\ ~tempo.err => bpm = tempo.arg.v

\* the stored tempo is the last accepted value, and GetBPM returns it
GetterReturns ==
    /\ bpm = tempo.accepted
    /\ tempo.op = "get" => tempo.got = tempo.accepted

\* every beat timer the last pass fired and left enabled is next due
\* strictly after the time of the pass
PeriodPositive ==
    updates > 0 =>
        \A n \in FiredBeats : NextFire(upd.after[n]) > upd.now

C33_WitnessGet ==
    /\ tempo.op = "get"
    /\ tempo.got = 120
    /\ calls = 2

\* a pass at a tempo below zero left a beat timer due before the time of
\* the pass
C33_WitnessBelowZero ==
    /\ updates > 0
    /\ upd.bpm < 0
    /\ upd.now = 10
    /\ "b1" \in FiredBeats
    /\ NextFire(upd.after["b1"]) = 0

\* a pass at an infinite tempo left a beat timer due at the time of the pass
C33_WitnessInfinite ==
    /\ updates > 0
    /\ upd.bpm = Infinity
    /\ "b1" \in FiredBeats
    /\ NextFire(upd.after["b1"]) = upd.now

----------------------------------------------------------------------------
(* Enabling timers that Timer.new made with or without a function and a
   frequency *)

\* the objects Timer.new may have made for a timer: with a function or
\* without, with a frequency or without
Objects(name) ==
    {[TimerDefs[name] EXCEPT !.function = f, !.frequency = q] :
        f \in BOOLEAN, q \in {TimerDefs[name].frequency, Nil}}

\* mutant: Enable takes the object as it is
timer_enable_unchecked(cbs, obj, name, start) ==
    [callbacks |-> Insert(cbs, name, Entry(obj, start)), err |-> FALSE]

\* Timer:Enable(delay) on the object: an error without a function, and for
\* a beat timer without a frequency
timer_enable(cbs, obj, name, start) ==
    IF ~obj.function \/ (obj.type = "beat" /\ obj.frequency = Nil)
    THEN [callbacks |-> cbs, err |-> TRUE]
    ELSE [callbacks |-> Insert(cbs, name, Entry(obj, start)), err |-> FALSE]

\* timer:Enable(delay) in the script, on whatever object the script made
TryEnable(name, obj, delay) ==
    /\ ~upd.panic
    /\ calls < MaxCalls
    /\ name \notin DOMAIN callbacks
    /\ \E start \in StartTimes(name, delay, bpm, published) :
          LET r == timer_enable(callbacks, obj, name, start)
          IN  /\ callbacks' = r.callbacks
              /\ tried' = [op |-> "enable", name |-> name, obj |-> obj,
                           delay |-> delay, err |-> r.err,
                           held |-> callbacks]
              /\ off' = IF r.err THEN off ELSE off \ {name}
    /\ calls' = calls + 1
    /\ steady' = (steady /\ updates = 0)
    /\ log' = << >>
    /\ UNCHANGED <<bpm, published, count, upd, updates, tempo>>
    /\ UNCHANGED <<dsp, session, audio, commands, runner, render, project>>

\* the times update is called with in a session that enables timers
EnableTimes == {0, 10}

NextEnable ==
    \/ \E name \in TimerNames, delay \in BOOLEAN :
          \E obj \in Objects(name) : TryEnable(name, obj, delay)
    \/ \E name \in TimerNames : ScriptDisable(name)
    \/ \E time \in EnableTimes :
          Update(time) /\ UNCHANGED <<runner, render, project>>

SpecEnable == Init /\ [][NextEnable]_vars

\* the last Enable call was an error exactly for an object without a
\* function and for a beat object without a frequency, and an error left
\* the table as it was
EnableRejects ==
    tried.op = "enable" =>
        /\ tried.err <=>
               \/ ~tried.obj.function
               \/ tried.obj.type = "beat" /\ tried.obj.frequency = Nil
        /\ (tried.err /\ updates = 0 /\ off = {}) => callbacks = tried.held

\* C34: Enable is an error for a callback without a function and for a beat
\* callback without a frequency; so every entry of the table, and every
\* entry an update pass visits, has a type of tick or beat, a function and,
\* for a beat, a frequency, and no pass aborts on a missing field
C34_EntriesComplete ==
    /\ EnableRejects
    /\ \A n \in DOMAIN callbacks : Readable(callbacks[n])
    /\ updates > 0 =>
           /\ ~upd.panic
           /\ \A n \in upd.visited : Readable(upd.before[n])

\* Enable of a tick timer without a function was refused, and the pass
\* after it visited the timers enabled before
C34_Witness ==
    /\ tried.err
    /\ tried.obj.type = "tick"
    /\ ~tried.obj.function
    /\ updates > 0
    /\ upd.visited # {}
    /\ upd.before = tried.held

\* Enable of a beat timer with a function and without a frequency was
\* refused
C34_WitnessNoFrequency ==
    /\ tried.err
    /\ tried.obj.type = "beat"
    /\ tried.obj.function
    /\ tried.obj.frequency = Nil

----------------------------------------------------------------------------
(* A beat timer of frequency 1.0 at 60 BPM over a run of updates *)

\* update calls in a session of one beat timer
MaxBeatUpdates == 5

\* Timer.new(BEAT, nil, 1.0, offset): the timers of the session, without
\* and with an offset of one second
BeatObjects == {[TimerDefs["b1"] EXCEPT !.offset = o] : o \in {0, 10}}

\* the script sets the callback of one of the timers and enables it, with
\* delay or without, before the first update
BeatEnable(obj, delay) ==
    /\ calls = 0
    /\ updates = 0
    /\ \E start \in StartTimesOf(obj, delay, bpm, published) :
          LET r == timer_enable(callbacks, obj, "b1", start)
          IN  /\ callbacks' = r.callbacks
              /\ tried' = [op |-> "enable", name |-> "b1", obj |-> obj,
                           delay |-> delay, err |-> r.err,
                           held |-> callbacks]
    /\ calls' = calls + 1
    /\ UNCHANGED <<bpm, published, count, upd, log, steady, off, updates,
                   tempo>>
    /\ UNCHANGED <<dsp, session, audio, commands, runner, render, project>>

\* TimerModule::update, in the session of one beat timer
BeatUpdate(time) ==
    /\ calls = 1
    /\ updates < MaxBeatUpdates
    /\ UpdateBody(time)
    /\ UNCHANGED <<runner, render, project>>

NextBeat ==
    \/ \E obj \in BeatObjects, delay \in BOOLEAN : BeatEnable(obj, delay)
    \/ \E time \in Times : BeatUpdate(time)

SpecBeat == Init /\ [][NextBeat]_vars

\* the passes recorded so far are updates at 0.0, 0.5, 1.0, 1.9 and 2.0,
\* as far as they go, of the timer enabled with the offset and the delay
Scenario32(offset, delay) ==
    /\ tried.op = "enable"
    /\ tried.obj.offset = offset
    /\ tried.delay = delay
    /\ bpm = 60
    /\ Len(log) <= 5
    /\ \A i \in DOMAIN log : log[i].now = <<0, 5, 10, 19, 20>>[i]

\* the fire counts of b1 after each recorded pass
RECURSIVE Cumulative(_)
Cumulative(i) ==
    IF i = 0 THEN << >>
    ELSE LET sofar == Cumulative(i - 1)
         IN  Append(sofar, log[i].fired["b1"]
                           + (IF i = 1 THEN 0 ELSE sofar[i - 1]))

\* the time of the first fire of the enabled timer: its offset, and one
\* beat period more when it was enabled with delay
FirstDue ==
    tried.obj.offset
        + (IF tried.delay THEN Period(upd.bpm, tried.obj.frequency) ELSE 0)

\* C32: at 60 BPM with frequency 1.0 a beat callback enabled without delay
\* first fires on the first update at or after its offset and one enabled
\* with delay one beat period later; over updates at 0.0, 0.5, 1.0, 1.9,
\* 2.0 the cumulative fire counts are 1,1,2,2,3 without delay at offset 0,
\* 0,0,1,1,2 with delay at offset 0 and 0,0,0,0,1 with delay at offset 1.0
C32_DelayedFirstFire ==
    /\ (updates > 0 /\ upd.cbefore["b1"] = 0 /\ "b1" \in DOMAIN upd.before) =>
           (upd.fired["b1"] = 1 <=> upd.now >= FirstDue)
    /\ Scenario32(0, FALSE) =>
           Cumulative(Len(log)) = SubSeq(<<1, 1, 2, 2, 3>>, 1, Len(log))
    /\ Scenario32(0, TRUE) =>
           Cumulative(Len(log)) = SubSeq(<<0, 0, 1, 1, 2>>, 1, Len(log))
    /\ Scenario32(10, TRUE) =>
           Cumulative(Len(log)) = SubSeq(<<0, 0, 0, 0, 1>>, 1, Len(log))

\* the five updates with the timer enabled without delay at offset 0
C32_Witness ==
    /\ Scenario32(0, FALSE)
    /\ Len(log) = 5
    /\ count["b1"] = 3

\* the five updates with the timer enabled with delay at offset 0
C32_WitnessDelay ==
    /\ Scenario32(0, TRUE)
    /\ Len(log) = 5
    /\ count["b1"] = 2

\* the five updates with the timer enabled with delay at offset 1.0
C32_WitnessOffset ==
    /\ Scenario32(10, TRUE)
    /\ Len(log) = 5
    /\ count["b1"] = 1
    /\ upd.fired["b1"] = 1

----------------------------------------------------------------------------
(* The arena edited while events are queued: play commands of the script,
   calls of the arena's methods, and the render thread *)

\* the play commands of the session: an oscillator and the first slot
\* allocated
PlayStrings ==
    {<<W("audio"), W("play"), N(3), N(1)>>,
     <<W("audio"), W("play"), N(7), N(1)>>}

\* the handles the session plays and edits
PlayHandles == {parse_usize(s[3]) : s \in PlayStrings}

\* the control thread has calls left in the session
Budget31 == steps + cmds < MaxSteps

\* a play command of the control thread
Play31 ==
    /\ Budget31
    /\ \E s \in PlayStrings : Send(s) /\ UNCHANGED <<render, project>>

\* a call of an arena method by the control thread
Arena31 ==
    /\ Budget31
    /\ \/ DoNetConstant(1)
       \/ \E h \in PlayHandles : DoNetReplace(h, NetNew(2, 1))
       \/ \E h \in PlayHandles, t \in ChainTypes : DoNetChain(h, t)
       \/ \E a \in PlayHandles : DoNetBus(a, a)

NextPlay == Play31 \/ Arena31 \/ Render

SpecPlay == Init /\ [][NextPlay]_vars

\* a play that returned an id queued the network the arena held at the
\* handle when the command was sent
PlayCopies ==
    (cmds > 0 /\ AudioOp("play") /\ ~aborted /\ cmd.ret # <<W("nil")>>) =>
        \E i \in DOMAIN sequencer :
            /\ E(sequencer[i].id) = cmd.ret[1]
            /\ sequencer[i].unit = Operand(3)

\* a step keeps every queued event with the network it was queued with
QueueKept ==
    \A i \in DOMAIN sequencer :
        /\ i \in DOMAIN sequencer'
        /\ sequencer'[i].unit = sequencer[i].unit

\* what the render thread read for an event are the cells of the queued
\* network, whatever the arena holds
RenderReadsQueue ==
    \A i \in DOMAIN heard :
        /\ i \in DOMAIN sequencer
        /\ DOMAIN heard[i] = sequencer[i].unit.refs

\* C31: play queues a copy of the network taken when it is called; no
\* later arena operation (a replace of the slot, a chain on the slot, a new
\* combinator) changes the network of a queued event, and the render
\* thread reads the queued networks, never the arena
C31_PlayedCopy == [](PlayCopies /\ RenderReadsQueue) /\ [][QueueKept]_vars

\* the slot an event was played from was replaced afterwards: the event
\* keeps the constant it was queued with
C31_Witness ==
    /\ last.op = "net_replace"
    /\ last.ret = 7
    /\ Len(sequencer) = 1
    /\ sequencer[1].unit.kind = "constant"
    /\ Slot(nets, 7).kind = "new"
    /\ cmd.arg = <<W("audio"), W("play"), N(7), N(1)>>

\* an oscillator was chained onto after it was played, and the render
\* thread then read the event
C31_WitnessChain ==
    /\ last.op = "net_chain"
    /\ last.a = 3
    /\ Len(sequencer) = 1
    /\ sequencer[1].unit = get_defaults[4]
    /\ Slot(nets, 3) # get_defaults[4]
    /\ 1 \in DOMAIN heard

====
